---- MODULE Spec2Model ----
(***************************************************************************)
(* Dispatch core of the Sovereign Desktop agent: CommandResult, the        *)
(* safe_execute boundary, BaseTool.execute, the two tool registries, the   *)
(* SemanticRouter / IntentRouter response-cleaning pipelines and           *)
(* SovereignAgent.process_command.                                         *)
(***************************************************************************)
EXTENDS Integers, Sequences, FiniteSets, TLC

(***************************************************************************)
(* Bounds                                                                  *)
(***************************************************************************)
MaxInst == 2          \* tool instances are numbered 1..MaxInst
MaxProse == 1         \* words of prose appended after / before a JSON object

(***************************************************************************)
(* Python values.  Every value is a record with a "kind" field.            *)
(* A str is a sequence of pieces (the empty str is <<>>).                  *)
(***************************************************************************)
None == [kind |-> "None"]
PyStr(s) == [kind |-> "str", s |-> s]
PyInt(n) == [kind |-> "int", n |-> n]
PyBool(b) == [kind |-> "bool", b |-> b]
PyList(items) == [kind |-> "list", items |-> items]
PyDict(m) == [kind |-> "dict", m |-> m]
EmptyDict == PyDict(<<>>)

IsDict(v) == v.kind = "dict"
HasKey(d, k) == k \in DOMAIN d.m
\* dict.get(k, default)
Get(d, k, default) == IF k \in DOMAIN d.m THEN d.m[k] ELSE default
\* d[k] = v on a dict
SetItem(d, k, v) == PyDict([x \in (DOMAIN d.m) \cup {k} |-> IF x = k THEN v ELSE d.m[x]])

\* the outcome of a call: a returned value or a raised exception
Ret(v) == [exc |-> "none", val |-> v, msg |-> <<>>]
Raise(type, msg) == [exc |-> type, val |-> None, msg |-> msg]
Raised(o) == o.exc # "none"

(***************************************************************************)
(* app/utils/result.py                                                     *)
(***************************************************************************)
CommandResult(success, data, error) ==
    [kind |-> "CommandResult", success |-> success, data |-> data, error |-> error]

\* legacy Result.fail(error, code, **metadata)
Result_fail(error, code, metadata) ==
    [kind |-> "Result", success |-> FALSE, data |-> None, error |-> error,
     error_code |-> code, metadata |-> metadata]

(***************************************************************************)
(* app/utils/safety.py                                                     *)
(***************************************************************************)
\* mutant: a caught exception keeps the partial data next to the error
safe_execute_keepdata(o) ==
    IF Raised(o) THEN Ret(CommandResult(FALSE, EmptyDict, PyStr(o.msg)))
    ELSE IF o.val.kind = "CommandResult" THEN o
    ELSE Ret(CommandResult(TRUE, o.val, None))

\* the wrapper around a func whose outcome is o
safe_execute(o) ==
    IF Raised(o) THEN Ret(CommandResult(FALSE, None, PyStr(o.msg)))
    ELSE IF o.val.kind = "CommandResult" THEN o
    ELSE Ret(CommandResult(TRUE, o.val, None))

(***************************************************************************)
(* Capabilities.  A tool instance is [name, inst]; what its _run does      *)
(* depends on the keyword arguments and on the environment env (native     *)
(* interfaces, files, the network).                                        *)
(***************************************************************************)
ToolNames == {"set_volume", "launch_app", "capture_screen", "analyze_image"}
Insts == 1..MaxInst
Tools == [name : ToolNames, inst : Insts]

Envs == {"ok", "unavailable", "raises", "raises_empty", "returns_none", "returns_raw"}

\* mutant: the tool reports the 0.0 to 1.0 scalar it passed to the endpoint
VolumeTool_run_scalar(kwargs, env) ==
    IF HasKey(kwargs, "level") /\ kwargs.m["level"].kind = "int" /\ env = "ok"
    THEN Ret(CommandResult(TRUE, PyDict([k \in {"volume"} |-> PyInt(kwargs.m["level"].n \div 100)]),
                           None))
    ELSE Ret(CommandResult(FALSE, None, PyStr(<<"Audio control not available. Is pycaw installed?">>)))

\* app/services/system/volume.py VolumeTool._run
VolumeTool_run(kwargs, env) ==
    IF env = "unavailable"
    THEN Ret(CommandResult(FALSE, None, PyStr(<<"Audio control not available. Is pycaw installed?">>)))
    ELSE IF Get(kwargs, "action", PyStr(<<"set">>)) = PyStr(<<"get">>)
    THEN IF env \in {"raises", "raises_empty"}
         THEN Raise("OSError", IF env = "raises" THEN <<"COM error">> ELSE <<>>)
         ELSE Ret(CommandResult(TRUE, PyDict([k \in {"volume", "muted"} |->
                    IF k = "volume" THEN PyInt(30) ELSE PyBool(FALSE)]), None))
    ELSE IF HasKey(kwargs, "mute")
    THEN IF env \in {"raises", "raises_empty"}
         THEN Raise("OSError", IF env = "raises" THEN <<"COM error">> ELSE <<>>)
         ELSE Ret(CommandResult(TRUE, PyDict([k \in {"muted"} |-> kwargs.m["mute"]]), None))
    ELSE IF HasKey(kwargs, "level")
    THEN LET level == kwargs.m["level"] IN
         IF level.kind \notin {"int", "bool"}
         THEN Ret(CommandResult(FALSE, None,
                  PyStr(<<"Volume level must be a number, got ", level.kind>>)))
         ELSE IF env \in {"raises", "raises_empty"}
         THEN Raise("OSError", IF env = "raises" THEN <<"COM error">> ELSE <<>>)
         ELSE LET n == IF level.kind = "int" THEN level.n ELSE 0
                  clamped == IF n < 0 THEN 0 ELSE IF n > 100 THEN 100 ELSE n
              IN Ret(CommandResult(TRUE, PyDict([k \in {"volume"} |-> PyInt(clamped)]), None))
    ELSE Ret(CommandResult(FALSE, None,
             PyStr(<<"No action specified. Use level=<0-100>, mute=<True/False>, or action='get'">>)))

\* any other capability: the _run of a provider the core knows nothing
\* about.  It returns a well-formed CommandResult, returns a bare value that
\* is not a CommandResult (None, a dict), or raises.
Capability_run(name, kwargs, env) ==
    CASE env = "ok" -> Ret(CommandResult(TRUE, PyDict([k \in {"app"} |-> PyStr(<<name>>)]), None))
      [] env = "unavailable" -> Ret(CommandResult(FALSE, None, PyStr(<<"Failed to launch">>)))
      [] env = "raises" -> Raise("RuntimeError", <<"boom">>)
      [] env = "raises_empty" -> Raise("RuntimeError", <<>>)
      [] env = "returns_none" -> Ret(None)
      [] env = "returns_raw" -> Ret(PyDict([k \in {"path"} |-> PyStr(<<"/tmp/x.png">>)]))

ImagePath == PyStr(<<"/tmp/sovereign_screen_1.png">>)
Failing(env) == env \in {"unavailable", "raises", "raises_empty"}

\* app/services/system/screen_capture.py ScreenCaptureTool._run: a bare dict
ScreenCaptureTool_run(kwargs, env) ==
    IF Failing(env)
    THEN Raise("ScreenShotError", IF env = "raises_empty" THEN <<>> ELSE <<"grab failed">>)
    ELSE Ret(PyDict([k \in {"path", "monitor"} |-> IF k = "path" THEN ImagePath ELSE PyInt(1)]))

\* app/services/ai/vision.py VisionTool._run(image_path, query): a bare dict
VisionTool_run(kwargs, env) ==
    IF ~(HasKey(kwargs, "image_path") /\ HasKey(kwargs, "query"))
    THEN Raise("TypeError", <<"_run() missing required positional arguments">>)
    ELSE IF Failing(env)
    THEN Raise("ConnectionError", IF env = "raises_empty" THEN <<>> ELSE <<"connection refused">>)
    ELSE Ret(PyDict([k \in {"response", "image_path"} |->
             IF k = "response" THEN PyStr(<<"A desktop with two windows.">>)
             ELSE kwargs.m["image_path"]]))

\* self._run(**kwargs) of the registered instance
Tool_run(tool, kwargs, env) ==
    CASE tool.name = "set_volume" -> VolumeTool_run(kwargs, env)
      [] tool.name = "capture_screen" -> ScreenCaptureTool_run(kwargs, env)
      [] tool.name = "analyze_image" -> VisionTool_run(kwargs, env)
      [] OTHER -> Capability_run(tool.name, kwargs, env)

(***************************************************************************)
(* app/interfaces/tool.py  BaseTool.execute                                *)
(***************************************************************************)
\* mutant: execute calls _run directly, without the safe_execute wrapper
BaseTool_execute_unwrapped(tool, kwargs, env) ==
    IF ~IsDict(kwargs)
    THEN Raise("TypeError", <<"argument after ** must be a mapping">>)
    ELSE IF HasKey(kwargs, "self")
    THEN Raise("TypeError", <<"execute() got multiple values for argument 'self'">>)
    ELSE Tool_run(tool, kwargs, env)

\* tool.execute as written at a call site: kwargs is whatever value
\* the caller unpacks with **
BaseTool_execute(tool, kwargs, env) ==
    IF ~IsDict(kwargs)
    THEN Raise("TypeError", <<"argument after ** must be a mapping">>)
    ELSE IF HasKey(kwargs, "self")
    THEN Raise("TypeError", <<"execute() got multiple values for argument 'self'">>)
    ELSE safe_execute(Tool_run(tool, kwargs, env))

(***************************************************************************)
(* JSON text.  A classifier output is a sequence of tokens: braces,        *)
(* brackets, quotes, colons, commas, string pieces, numbers, whitespace,   *)
(* the code fence ``` and the word json.                                   *)
(***************************************************************************)
Ws == {" ", "\n"}
KeyOrder == <<"category", "tool_name", "parameters", "level", "self">>

RECURSIVE Render(_)
RECURSIVE RenderItems(_, _)
RECURSIVE RenderList(_)
\* json.dumps: the members of the dict m whose keys are KeyOrder[i..]
RenderItems(m, i) ==
    IF i > Len(KeyOrder) THEN <<>>
    ELSE IF KeyOrder[i] \notin DOMAIN m THEN RenderItems(m, i + 1)
    ELSE LET rest == RenderItems(m, i + 1)
         IN <<"\"", KeyOrder[i], "\"", ":">> \o Render(m[KeyOrder[i]])
            \o (IF rest = <<>> THEN <<>> ELSE <<",">> \o rest)
RenderList(items) ==
    IF items = <<>> THEN <<>>
    ELSE Render(Head(items)) \o (IF Len(items) = 1 THEN <<>> ELSE <<",">> \o RenderList(Tail(items)))
Render(v) ==
    CASE v.kind = "None" -> <<"null">>
      [] v.kind = "int" -> <<ToString(v.n)>>
      [] v.kind = "str" -> <<"\"">> \o v.s \o <<"\"">>
      [] v.kind = "list" -> <<"[">> \o RenderList(v.items) \o <<"]">>
      [] v.kind = "dict" -> <<"{">> \o RenderItems(v.m, 1) \o <<"}">>

\* the JSON values the classifier may emit
JsonAtoms == {None, PyInt(50), PyStr(<<"loud">>), PyList(<<PyInt(50)>>)}
\* the ends and the middle of the volume range
VolumeLevels == {0, 50, 100}
ParamDicts == {EmptyDict, PyDict([k \in {"self"} |-> PyInt(50)])}
              \cup {PyDict([k \in {"level"} |-> PyInt(l)]) : l \in VolumeLevels}
ParamValues == ParamDicts \cup {PyList(<<PyInt(50)>>)}
ToolNameValues == {PyStr(<<n>>) : n \in {"set_volume", "launch_app", "ghost", "general_chat",
                                          "visual_query"}}
                  \cup {PyList(<<PyInt(50)>>)}
CategoryValues == {PyStr(<<"SYSTEM_CONTROL">>), PyStr(<<"BROWSER">>)}

\* dicts with an optional key k1 drawn from V1 and an optional key k2 from V2
Objects(k1, V1, k2, V2) ==
    {EmptyDict}
    \cup {PyDict([k \in {k1} |-> a]) : a \in V1}
    \cup {PyDict([k \in {k2} |-> b]) : b \in V2}
    \cup {PyDict([k \in {k1, k2} |-> IF k = k1 THEN ab[1] ELSE ab[2]]) : ab \in V1 \X V2}

\* SemanticRouter decisions {"tool_name": ..., "parameters": ...}
Decisions == Objects("tool_name", ToolNameValues, "parameters", ParamValues)
\* IntentRouter decisions {"category": ..., "parameters": ...}
LegacyDecisions == Objects("category", CategoryValues, "parameters", ParamValues)

JsonUniverse == JsonAtoms \cup ParamDicts \cup Decisions \cup LegacyDecisions

StripTokens(s) == SelectSeq(s, LAMBDA t : t \notin Ws)

\* json.loads(text): whitespace between tokens is insignificant; any text
\* that is not the rendering of a JSON value raises JSONDecodeError
JsonTexts == {Render(v) : v \in JsonUniverse}
JsonValueOf == [t \in JsonTexts |-> CHOOSE v \in JsonUniverse : Render(v) = t]
json_loads(text) ==
    LET t == StripTokens(text) IN
    IF t \in JsonTexts THEN Ret(JsonValueOf[t])
    ELSE Raise("JSONDecodeError", <<"Expecting value">>)

\* str.strip()
RECURSIVE LStrip(_)
LStrip(s) == IF s # <<>> /\ Head(s) \in Ws THEN LStrip(Tail(s)) ELSE s
RECURSIVE RStrip(_)
RStrip(s) == IF s # <<>> /\ s[Len(s)] \in Ws THEN RStrip(SubSeq(s, 1, Len(s) - 1)) ELSE s
Strip(s) == RStrip(LStrip(s))

\* str.find / str.rfind of a one-token needle; 0 when absent
Find(s, c) == IF \E i \in 1..Len(s) : s[i] = c
              THEN CHOOSE i \in 1..Len(s) : s[i] = c /\ \A j \in 1..(i - 1) : s[j] # c
              ELSE 0
RFind(s, c) == IF \E i \in 1..Len(s) : s[i] = c
               THEN CHOOSE i \in 1..Len(s) : s[i] = c /\ \A j \in (i + 1)..Len(s) : s[j] # c
               ELSE 0

\* the classifier outputs: a JSON value bare, inside ```json fences, followed
\* by prose, and plain prose with no JSON at all
RECURSIVE Prose(_)
Prose(n) == IF n = 0 THEN <<>> ELSE <<" ", "Sure">> \o Prose(n - 1)
\* the token FENCE stands for the three backticks of a markdown code fence
FENCE == "<fence>"
Fenced(j) == <<FENCE, "json", "\n">> \o j \o <<"\n", FENCE>>
WithProse(j, n) == j \o Prose(n)
WrapKinds == {[kind |-> "bare", n |-> 0], [kind |-> "fenced", n |-> 0]}
             \cup {[kind |-> "prose", n |-> n] : n \in 1..MaxProse}
Wrap(w, j) == CASE w.kind = "bare" -> j
                [] w.kind = "fenced" -> Fenced(j)
                [] w.kind = "prose" -> WithProse(j, w.n)
Wrappings(j) == {Wrap(w, j) : w \in WrapKinds}
ClassifierOutputs ==
    UNION {Wrappings(Render(v)) : v \in Decisions \cup {PyInt(50), PyList(<<PyInt(50)>>)}}
    \cup {Prose(n) : n \in 0..MaxProse}

(***************************************************************************)
(* Python operators on values                                              *)
(***************************************************************************)
\* str(v) as pieces
StrOf(v) == IF v.kind = "str" THEN v.s ELSE Render(v)

\* k in v : key of a dict, element of a list, substring of a str;
\* TypeError for a value that is not a container
Contains(v, k) ==
    CASE v.kind = "dict" -> Ret(PyBool(k \in DOMAIN v.m))
      [] v.kind = "list" -> Ret(PyBool(\E i \in 1..Len(v.items) : v.items[i] = PyStr(<<k>>)))
      [] v.kind = "str" -> Ret(PyBool(\E i \in 1..Len(v.s) : v.s[i] = k))
      [] OTHER -> Raise("TypeError", <<"argument of type '", v.kind, "' is not iterable">>)

\* v[k] = x with a str key k
AssignItem(v, k, x) ==
    IF v.kind = "dict" THEN Ret(SetItem(v, k, x))
    ELSE Raise("TypeError", <<"'", v.kind, "' object does not support item assignment">>)

\* v[k] with a str key k
ReadItem(v, k) ==
    IF v.kind = "dict"
    THEN IF k \in DOMAIN v.m THEN Ret(v.m[k]) ELSE Raise("KeyError", <<k>>)
    ELSE Raise("TypeError", <<"'", v.kind, "' indices must be integers">>)

(***************************************************************************)
(* app/core/registry.py  ToolRegistry: _tools is an insertion-ordered dict, *)
(* modelled as a sequence of tool instances with distinct names            *)
(***************************************************************************)
NoTool == [name |-> "", inst |-> 0]
RegNames(tools) == {tools[i].name : i \in 1..Len(tools)}

\* ToolRegistry.get_tool(name): self._tools.get(name)
get_tool(tools, name) ==
    IF name \in RegNames(tools)
    THEN tools[CHOOSE i \in 1..Len(tools) : tools[i].name = name]
    ELSE NoTool

\* mutant: register_tool overwrites an existing entry instead of rejecting it
register_tool_overwrite(tools, tool) ==
    IF tool.name \in RegNames(tools)
    THEN [out |-> Ret(None),
          tools |-> [i \in 1..Len(tools) |-> IF tools[i].name = tool.name THEN tool ELSE tools[i]]]
    ELSE [out |-> Ret(None), tools |-> Append(tools, tool)]

\* ToolRegistry.register_tool(tool): the outcome and the new _tools
register_tool(tools, tool) ==
    IF tool.name \in RegNames(tools)
    THEN [out |-> Raise("ValueError", <<"Tool '", tool.name, "' is already registered">>),
          tools |-> tools]
    ELSE [out |-> Ret(None), tools |-> Append(tools, tool)]

(***************************************************************************)
(* app/core/router.py  SemanticRouter                                      *)
(***************************************************************************)
\* re.sub(pattern + \s*, '', s) for the pattern FENCE json (withJson) or FENCE
RECURSIVE SubFence(_, _)
SubFence(s, withJson) ==
    IF s = <<>> THEN <<>>
    ELSE IF withJson /\ Len(s) >= 2 /\ s[1] = FENCE /\ s[2] = "json"
    THEN SubFence(LStrip(SubSeq(s, 3, Len(s))), withJson)
    ELSE IF ~withJson /\ s[1] = FENCE
    THEN SubFence(LStrip(Tail(s)), withJson)
    ELSE <<Head(s)>> \o SubFence(Tail(s), withJson)

\* SemanticRouter._clean_json_response
clean_json_response(response) ==
    LET r == Strip(SubFence(SubFence(response, TRUE), FALSE))
        start == Find(r, "{")
        end == RFind(r, "}")
    IN IF start # 0 /\ end # 0 /\ end > start THEN SubSeq(r, start, end) ELSE r

ParseFallback(response) ==
    PyDict([k \in {"tool_name", "parameters"} |->
        IF k = "tool_name" THEN PyStr(<<"general_chat">>)
        ELSE PyDict([j \in {"message", "parse_error"} |->
                 IF j = "message" THEN PyStr(response) ELSE PyBool(TRUE)])])

\* the validation of _parse_response: add the default for key k when absent
WithDefault(o, k, default) ==
    IF Raised(o) THEN o
    ELSE LET c == Contains(o.val, k) IN
         IF Raised(c) THEN c
         ELSE IF c.val.b THEN o
         ELSE AssignItem(o.val, k, default)

\* SemanticRouter._parse_response
parse_response(response) ==
    LET o == json_loads(clean_json_response(response)) IN
    IF o.exc = "JSONDecodeError" THEN Ret(ParseFallback(response))
    ELSE WithDefault(WithDefault(o, "tool_name", PyStr(<<"general_chat">>)),
                     "parameters", EmptyDict)

ErrorDecision(query, error) ==
    PyDict([k \in {"tool_name", "parameters", "error"} |->
        CASE k = "tool_name" -> PyStr(<<"general_chat">>)
          [] k = "parameters" -> PyDict([j \in {"message"} |-> PyStr(query)])
          [] k = "error" -> PyStr(error)])

Hashable(v) == v.kind \notin {"list", "dict"}

\* mutant: route returns the parsed decision without checking the registry
route_try_nowarning(tools, chat) ==
    IF Raised(chat) THEN chat
    ELSE LET p == parse_response(chat.val.s) IN
         IF Raised(p) THEN p
         ELSE LET tn == ReadItem(p.val, "tool_name") IN
              IF Raised(tn) THEN tn ELSE p

\* the body of the try block of route after ollama.chat has answered with
\* the outcome chat (the content str, or the exception the call raised)
route_try(tools, chat) ==
    IF Raised(chat) THEN chat
    ELSE LET p == parse_response(chat.val.s) IN
         IF Raised(p) THEN p
         ELSE LET tn == ReadItem(p.val, "tool_name") IN
              IF Raised(tn) THEN tn
              ELSE IF tn.val = PyStr(<<"general_chat">>) THEN p
              ELSE IF ~Hashable(tn.val)
              THEN Raise("TypeError", <<"unhashable type: '", tn.val.kind, "'">>)
              ELSE IF tn.val.kind = "str" /\ Len(tn.val.s) = 1 /\ tn.val.s[1] \in RegNames(tools)
              THEN p
              ELSE AssignItem(p.val, "warning",
                       PyStr(<<"Tool '">> \o StrOf(tn.val) \o <<"' not found in registry">>))

\* mutant: route swallows the failure and reports plain chat with no entry
route_catch_silent(query, o) ==
    IF Raised(o)
    THEN Ret(PyDict([k \in {"tool_name", "parameters"} |->
             IF k = "tool_name" THEN PyStr(<<"general_chat">>)
             ELSE PyDict([j \in {"message"} |-> PyStr(query)])]))
    ELSE o

\* the except Exception clause of route
route_catch(query, o) ==
    IF Raised(o)
    THEN Ret(ErrorDecision(query, <<"Routing error: ">> \o o.msg))
    ELSE o

\* SemanticRouter.route up to the classifier call: the decision returned
\* without calling the classifier, or None when the call is made.
\* imported is the outcome of the lazy import of the ollama module.
route_before_chat(query, imported) ==
    IF Strip(query) = <<>>
    THEN ErrorDecision(<<>>, <<"Empty query">>)
    ELSE IF Raised(imported)
    THEN ErrorDecision(query, <<"Ollama not installed. Run: pip install ollama">>)
    ELSE None

\* SemanticRouter.route from the classifier's answer on
route_after_chat(tools, query, chat) == route_catch(query, route_try(tools, chat))

\* the value of a str-named registered tool, NoTool for anything else
Lookup(tools, tn) ==
    IF tn.kind = "str" /\ Len(tn.s) = 1 THEN get_tool(tools, tn.s[1]) ELSE NoTool

(***************************************************************************)
(* src/main.py  SovereignAgent                                             *)
(***************************************************************************)
ChatReply == PyStr(<<"I'm your desktop assistant. How can I help?">>)

\* SovereignAgent._format_success(tool_name, data)
format_success(tool_name, data) ==
    LET done == Ret(PyStr(<<"Done: ">> \o StrOf(data))) IN
    IF tool_name = PyStr(<<"set_volume">>)
    THEN LET v == Contains(data, "volume") IN
         IF Raised(v) THEN v
         ELSE IF v.val.b
         THEN Ret(PyStr(<<"Volume set to ">> \o StrOf(data.m["volume"]) \o <<"%">>))
         ELSE LET mu == Contains(data, "muted") IN
              IF Raised(mu) THEN mu
              ELSE IF mu.val.b
              THEN Ret(PyStr(IF data.m["muted"] = PyBool(TRUE)
                             THEN <<"Audio muted">> ELSE <<"Audio unmuted">>))
              ELSE done
    ELSE IF tool_name = PyStr(<<"launch_app">>)
    THEN IF IsDict(data)
         THEN Ret(PyStr(<<"Launched ">> \o StrOf(Get(data, "app", PyStr(<<"the application">>)))))
         ELSE Raise("AttributeError", <<"'", data.kind, "' object has no attribute 'get'">>)
    ELSE done

\* SovereignAgent._handle_visual_query(parameters): the outcome and whether
\* the temporary screenshot is still on disk when it returns
handle_visual_query(tools, parameters, env, env2) ==
    IF ~IsDict(parameters)
    THEN [out |-> Raise("AttributeError", <<"'", parameters.kind, "' object has no attribute 'get'">>),
          leaked |-> FALSE, trace |-> <<>>]
    ELSE LET user_query == Get(parameters, "query", PyStr(<<"Describe what you see on the screen.">>))
             screen_tool == get_tool(tools, "capture_screen")
             screen_result == BaseTool_execute(screen_tool, EmptyDict, env).val
             vision_tool == get_tool(tools, "analyze_image")
             vision_result ==
                 BaseTool_execute(vision_tool,
                     PyDict([k \in {"image_path", "query"} |->
                         IF k = "image_path" THEN ImagePath ELSE user_query]), env2).val
         IN
         IF screen_tool = NoTool
         THEN [out |-> Ret(PyStr(<<"Screen capture tool not available.">>)), leaked |-> FALSE,
               trace |-> <<"REPLY">>]
         ELSE IF ~screen_result.success
         THEN [out |-> Ret(PyStr(<<"I couldn't capture the screen: ">> \o StrOf(screen_result.error))),
               leaked |-> FALSE, trace |-> <<"EXECUTING">>]
         ELSE IF vision_tool = NoTool
         THEN [out |-> Ret(PyStr(<<"Vision analysis tool not available.">>)), leaked |-> TRUE,
               trace |-> <<"EXECUTING">>]
         ELSE IF vision_result.success
         THEN [out |-> Ret(vision_result.data.m["response"]), leaked |-> FALSE,
               trace |-> <<"EXECUTING", "EXECUTING">>]
         ELSE [out |-> Ret(PyStr(<<"I couldn't analyze the image: ">> \o StrOf(vision_result.error))),
               leaked |-> FALSE, trace |-> <<"EXECUTING", "EXECUTING">>]

\* SovereignAgent.process_command from the router's decision on.  trace lists
\* what the request does after routing: EXECUTING for each tool.execute call,
\* CHATTING for _handle_chat, REPLY for a reply built without either
process_decision(tools, decision, env, env2) ==
    LET tool_name == Get(decision, "tool_name", None)
        parameters == Get(decision, "parameters", EmptyDict)
        tool == Lookup(tools, tool_name)
        result == BaseTool_execute(tool, parameters, env)
    IN
    IF HasKey(decision, "error")
    THEN [out |-> Ret(PyStr(<<"I had trouble understanding that: ">> \o StrOf(decision.m["error"]))),
          leaked |-> FALSE, trace |-> <<"REPLY">>]
    ELSE IF tool_name = PyStr(<<"general_chat">>)
    THEN [out |-> Ret(ChatReply), leaked |-> FALSE, trace |-> <<"CHATTING">>]
    ELSE IF tool_name = PyStr(<<"visual_query">>)
    THEN handle_visual_query(tools, parameters, env, env2)
    ELSE IF tool = NoTool
    THEN [out |-> Ret(PyStr(<<"I don't have a tool called '">> \o StrOf(tool_name) \o <<"'">>)),
          leaked |-> FALSE, trace |-> <<"REPLY">>]
    ELSE IF Raised(result)
    THEN [out |-> result, leaked |-> FALSE, trace |-> <<"EXECUTING">>]
    ELSE IF result.val.success
    THEN [out |-> format_success(tool_name, result.val.data), leaked |-> FALSE,
          trace |-> <<"EXECUTING">>]
    ELSE [out |-> Ret(PyStr(<<"Sorry, that didn't work: ">> \o StrOf(result.val.error))),
          leaked |-> FALSE, trace |-> <<"EXECUTING">>]

\* SemanticRouter.route_and_execute from the router's decision on
route_and_execute_decision(tools, query, route_result, env) ==
    LET tool_name == Get(route_result, "tool_name", None)
        parameters == Get(route_result, "parameters", EmptyDict)
        tool == Lookup(tools, tool_name)
    IN
    IF HasKey(route_result, "error")
    THEN Ret(CommandResult(FALSE, route_result, route_result.m["error"]))
    ELSE IF tool_name = PyStr(<<"general_chat">>)
    THEN IF IsDict(parameters)
         THEN Ret(CommandResult(TRUE,
                  PyDict([k \in {"type", "message"} |->
                      IF k = "type" THEN PyStr(<<"chat">>)
                      ELSE Get(parameters, "message", PyStr(query))]), None))
         ELSE Raise("AttributeError", <<"'", parameters.kind, "' object has no attribute 'get'">>)
    ELSE IF tool = NoTool
    THEN Ret(CommandResult(FALSE, route_result,
             PyStr(<<"Tool not found: ">> \o StrOf(tool_name))))
    ELSE BaseTool_execute(tool, parameters, env)

(***************************************************************************)
(* app/core/tool_registry.py  ToolRegistry                                 *)
(***************************************************************************)
\* mutant: execute_tool lets the failed lookup fall through to the call
execute_tool_nolookup(tools, name, params) ==
    Raise("AttributeError", <<"'NoneType' object has no attribute 'run'">>)

\* ToolRegistry.execute_tool(name, params).  The registered instances are
\* app.interfaces.BaseTool objects (app/interfaces/tool.py), which define
\* execute and _run but no run method.
execute_tool(tools, name, params) ==
    IF get_tool(tools, name) = NoTool
    THEN Ret(Result_fail(PyStr(<<"Tool not found: ", name>>), PyStr(<<"TOOL_NOT_FOUND">>),
             PyDict([k \in {"available_tools"} |->
                 PyList([i \in 1..Len(tools) |-> PyStr(<<tools[i].name>>)])])))
    ELSE Raise("AttributeError", <<"'BaseTool' object has no attribute 'run'">>)

(***************************************************************************)
(* State                                                                   *)
(***************************************************************************)
VARIABLES
    reg,      \* app.core.registry.ToolRegistry._tools of the agent
    treg,     \* app.core.tool_registry.ToolRegistry._tools (the global registry)
    lreg,     \* app.interfaces.tool_interface.ToolRegistry._tools (class attribute)
    won,      \* history: per registry, the tools whose registration succeeded,
              \* in the order of the first success of each name, each name with
              \* the instance of its last success
    ollama,   \* SemanticRouter._ollama is loaded
    pc,       \* "idle", or "waiting" while ollama.chat is in flight
    req,      \* the request whose classifier call is in flight
    last,     \* the last completed call: operation, inputs and outcome
    th,       \* per thread, the call it is in: position, inputs, what it read
    logger,   \* app.utils.safety._logger and, per failing call, its records in app.log
    discovered, \* app.core.tool_registry.ToolRegistry._discovered of the global registry
    second,   \* _tools of a second instance of app.core.registry.ToolRegistry and
              \* of app.core.tool_registry.ToolRegistry
    ctx       \* a core.context_manager.ContextManager: its limits and its deques

\* the state only concurrent callers touch
aux == <<th, logger, discovered, second, ctx>>
vars == <<reg, treg, lreg, won, ollama, pc, req, last, aux>>

Threads == {1, 2}
IdleThread == [pc |-> "idle", op |-> "none", name |-> "", kwargs |-> None, env |-> "ok",
               tool |-> [name |-> "", inst |-> 0], seen |-> <<>>, snap |-> {},
               out |-> Ret(None)]
\* _logger is None, no handler on the logger "sovereign.safety"
NoLogger == [set |-> FALSE, handlers |-> 0, written |-> [t \in Threads |-> 0]]
InitAux ==
    /\ th = [t \in Threads |-> IdleThread]
    /\ logger = NoLogger
    /\ discovered = FALSE
    /\ second = [core |-> <<>>, global |-> <<>>]
    /\ ctx = [max_context_messages |-> 1, max_action_history |-> 1,
              messages |-> <<>>, actions |-> <<>>, added |-> 0, recorded |-> 0]

NoReq == [op |-> "none", query |-> <<>>]
NoCall == [op |-> "none", query |-> <<>>, chat |-> Ret(None), tool |-> NoTool,
           name |-> "", params |-> None, env |-> "ok", decision |-> None,
           out |-> Ret(None), leaked |-> FALSE, before |-> <<>>, j |-> None, wrap |-> "",
           trace |-> <<>>, obj |-> <<>>, impl |-> Ret(None),
           log |-> [sink |-> "none", name |-> "", type |-> "none", message |-> <<>>,
                    params |-> None],
           kwargs |-> None, after |-> None]

\* the order in which SovereignAgent._init_registry registers the providers
BootOrder == <<"set_volume", "launch_app", "capture_screen", "analyze_image">>
BootRegistry(S) == SelectSeq([i \in 1..Len(BootOrder) |-> [name |-> BootOrder[i], inst |-> 1]],
                             LAMBDA t : t.name \in S)

Queries == {<<>>, <<" ">>, <<"Set volume to 50">>}
Ops == {"route", "route_and_execute", "process_command"}
Envs2 == {"ok", "raises"}
\* the provider sets the registry is built from
RegistryConfigs == {ToolNames, ToolNames \ {"analyze_image"}, {"set_volume"}, {}}

\* the environments that matter to a request: a provider only meets its
\* environment when the decision makes the operation run it
RunsTool(tools, op, decision) ==
    /\ op # "route"
    /\ ~HasKey(decision, "error")
    /\ \/ Lookup(tools, Get(decision, "tool_name", None)) # NoTool
       \/ op = "process_command" /\ Get(decision, "tool_name", None) = PyStr(<<"visual_query">>)
EnvsFor(tools, op, decision) == IF RunsTool(tools, op, decision) THEN Envs ELSE {"ok"}
Envs2For(tools, op, decision) ==
    IF op = "process_command" /\ ~HasKey(decision, "error")
       /\ Get(decision, "tool_name", None) = PyStr(<<"visual_query">>)
    THEN Envs2 ELSE {"ok"}
ConnectionErrors == {<<"connection refused">>, <<>>}

Range(f) == {f[i] : i \in DOMAIN f}

\* the tools of the legacy interface (app/interfaces/tool_interface.py)
LegacyToolNames == {"volume_control"}
LegacyTools == [name : LegacyToolNames, inst : Insts]
\* the history of a registry that was filled by registering tools in order
Held(tools) == tools
\* the history after one more successful registration
Record(h, tool) ==
    IF \E i \in 1..Len(h) : h[i].name = tool.name
    THEN [i \in 1..Len(h) |-> IF h[i].name = tool.name THEN tool ELSE h[i]]
    ELSE Append(h, tool)

\* a registry built at start-up from some of the providers
Init ==
    /\ reg \in {BootRegistry(S) : S \in RegistryConfigs}
    /\ treg = BootRegistry({"set_volume", "launch_app"})
    /\ lreg = <<>>
    /\ won = [core |-> Held(reg), global |-> Held(treg), legacy |-> Held(lreg)]
    /\ ollama = FALSE
    /\ pc = "idle"
    /\ req = NoReq
    /\ last = NoCall
    /\ InitAux

\* the end of a request whose route call produced decision
Complete(op, query, chat, decision, env, env2) ==
    LET pd == process_decision(reg, decision, env, env2) IN
    /\ pc' = "idle"
    /\ req' = NoReq
    /\ last' = [NoCall EXCEPT
                  !.op = op, !.query = query, !.chat = chat, !.decision = decision,
                  !.env = env,
                  !.out = CASE op = "route" -> Ret(decision)
                            [] op = "route_and_execute" ->
                                 route_and_execute_decision(reg, query, decision, env)
                            [] op = "process_command" -> pd.out,
                  !.leaked = (op = "process_command" /\ pd.leaked),
                  !.trace = IF op = "process_command"
                            THEN <<"RECEIVED", "ROUTED">> \o pd.trace
                                 \o <<IF Raised(pd.out) THEN "RAISED" ELSE "COMPLETED">>
                            ELSE <<>>]

\* tool.execute(**kwargs) on a registered tool
Execute(tool, kwargs, env) ==
    /\ pc = "idle"
    /\ tool \in Range(reg)
    /\ last' = [NoCall EXCEPT !.op = "execute", !.tool = tool, !.name = tool.name,
                  !.params = kwargs, !.env = env,
                  !.out = BaseTool_execute(tool, kwargs, env)]
    /\ UNCHANGED <<aux, reg, treg, lreg, won, ollama, pc, req>>

\* registry.execute_tool(name, params) on the global registry
ExecuteTool(name, params) ==
    /\ pc = "idle"
    /\ last' = [NoCall EXCEPT !.op = "execute_tool", !.name = name, !.params = params,
                  !.out = execute_tool(treg, name, params)]
    /\ UNCHANGED <<aux, reg, treg, lreg, won, ollama, pc, req>>

\* route / route_and_execute / process_command on a query for which route
\* returns before calling the classifier (empty query, ollama not installed)
RequestShortCircuit(op, query, imp) ==
    LET imported == IF ollama THEN Ret(None) ELSE imp
        d == route_before_chat(query, imported)
    IN /\ pc = "idle"
       /\ d # None
       /\ Complete(op, query, Ret(None), d, "ok", "ok")
       /\ UNCHANGED <<aux, reg, treg, lreg, won, ollama>>

\* the same operations up to the blocking call ollama.chat(...)
RequestCallsClassifier(op, query, imp) ==
    LET imported == IF ollama THEN Ret(None) ELSE imp
    IN /\ pc = "idle"
       /\ route_before_chat(query, imported) = None
       /\ pc' = "waiting"
       /\ req' = [op |-> op, query |-> query]
       /\ ollama' = TRUE
       /\ last' = NoCall
       /\ UNCHANGED <<aux, reg, treg, lreg, won>>

\* ollama.chat returns text; the rest of the operation runs to its end
ClassifierAnswers(text) ==
    LET chat == Ret(PyStr(text))
        d == route_after_chat(reg, req.query, chat).val
    IN /\ pc = "waiting"
       /\ \E env \in EnvsFor(reg, req.op, d), env2 \in Envs2For(reg, req.op, d) :
             Complete(req.op, req.query, chat, d, env, env2)
       /\ UNCHANGED <<aux, reg, treg, lreg, won, ollama>>

\* mutant: a failed classifier call drops the cached ollama module
ClassifierFails_resets(msg) ==
    LET chat == Raise("ConnectionError", msg) IN
    /\ pc = "waiting"
    /\ Complete(req.op, req.query, chat, route_after_chat(reg, req.query, chat).val, "ok", "ok")
    /\ ollama' = FALSE
    /\ UNCHANGED <<aux, reg, treg, lreg, won>>

\* ollama.chat raises (the backend is unreachable)
ClassifierFails(msg) ==
    LET chat == Raise("ConnectionError", msg) IN
    /\ pc = "waiting"
    /\ Complete(req.op, req.query, chat, route_after_chat(reg, req.query, chat).val, "ok", "ok")
    /\ UNCHANGED <<aux, reg, treg, lreg, won, ollama>>

ImportOutcomes == {Ret(None), Raise("ImportError", <<"No module named 'ollama'">>)}

Next ==
    \/ \E tool \in Tools, kwargs \in ParamDicts, env \in Envs : Execute(tool, kwargs, env)
    \/ \E name \in ToolNames \cup {"ghost"}, params \in ParamDicts \cup {None} :
          ExecuteTool(name, params)
    \/ \E op \in Ops, query \in Queries, imp \in ImportOutcomes :
          RequestShortCircuit(op, query, imp)
    \/ \E op \in Ops, query \in Queries, imp \in ImportOutcomes :
          RequestCallsClassifier(op, query, imp)
    \/ \E text \in ClassifierOutputs : ClassifierAnswers(text)
    \/ \E msg \in ConnectionErrors : ClassifierFails(msg)

Spec == Init /\ [][Next]_vars

(***************************************************************************)
(* src/core/router.py  IntentRouter                                        *)
(***************************************************************************)
\* str.split("\n")
RECURSIVE SplitLines(_)
SplitLines(s) ==
    LET i == Find(s, "\n") IN
    IF i = 0 THEN <<s>>
    ELSE <<SubSeq(s, 1, i - 1)>> \o SplitLines(SubSeq(s, i + 1, Len(s)))

\* "\n".join(lines)
RECURSIVE JoinLines(_)
JoinLines(lines) ==
    IF lines = <<>> THEN <<>>
    ELSE IF Len(lines) = 1 THEN lines[1]
    ELSE lines[1] \o <<"\n">> \o JoinLines(Tail(lines))

\* the fence removal of _parse_json_response
DropFenceLines(response) ==
    IF response # <<>> /\ response[1] = FENCE
    THEN JoinLines(SelectSeq(SplitLines(response), LAMBDA l : ~(l # <<>> /\ l[1] = FENCE)))
    ELSE response

IsBrace(t) == t \in {"{", "}"}

\* re.search(r'\{[^{}]*\}', response): the leftmost brace-free {...} span,
\* <<>> when there is none
InnermostSpan(s) ==
    LET Matches(i) == /\ s[i] = "{"
                      /\ \E j \in (i + 1)..Len(s) :
                            s[j] = "}" /\ \A k \in (i + 1)..(j - 1) : ~IsBrace(s[k])
        starts == {i \in 1..Len(s) : Matches(i)}
    IN IF starts = {} THEN <<>>
       ELSE LET i == CHOOSE a \in starts : \A b \in starts : a <= b
                j == CHOOSE b \in (i + 1)..Len(s) :
                        s[b] = "}" /\ \A k \in (i + 1)..(b - 1) : ~IsBrace(s[k])
            IN SubSeq(s, i, j)

\* the last strategy of _parse_json_response: first { to last }
OutermostSpan(s) ==
    LET start == Find(s, "{")
        end == RFind(s, "}")
    IN IF start # 0 /\ end # 0 /\ end > start THEN SubSeq(s, start, end) ELSE <<>>

\* IntentRouter._parse_json_response: the parsed value, None when every
\* strategy fails
parse_json_response(response) ==
    LET r == DropFenceLines(Strip(response))
        direct == json_loads(r)
        inner == json_loads(InnermostSpan(r))
        outer == json_loads(OutermostSpan(r))
    IN IF ~Raised(direct) THEN direct.val
       ELSE IF InnermostSpan(r) # <<>> /\ ~Raised(inner) THEN inner.val
       ELSE IF OutermostSpan(r) # <<>> /\ ~Raised(outer) THEN outer.val
       ELSE None

(***************************************************************************)
(* The cleaning pipelines as functions of the classifier's text            *)
(***************************************************************************)
\* SemanticRouter._parse_response applied to the value j wrapped as w
ParseSemantic(j, w) ==
    /\ last' = [NoCall EXCEPT !.op = "_parse_response", !.j = j, !.wrap = w.kind,
                  !.chat = Ret(PyStr(Wrap(w, Render(j)))),
                  !.out = parse_response(Wrap(w, Render(j)))]
    /\ UNCHANGED <<aux, reg, treg, lreg, won, ollama, pc, req>>

\* IntentRouter._parse_json_response applied to the value j wrapped as w
ParseLegacy(j, w) ==
    /\ last' = [NoCall EXCEPT !.op = "_parse_json_response", !.j = j, !.wrap = w.kind,
                  !.chat = Ret(PyStr(Wrap(w, Render(j)))),
                  !.out = Ret(parse_json_response(Wrap(w, Render(j))))]
    /\ UNCHANGED <<aux, reg, treg, lreg, won, ollama, pc, req>>

InitParse ==
    /\ reg = <<>>
    /\ treg = <<>>
    /\ lreg = <<>>
    /\ won = [core |-> Held(reg), global |-> Held(treg), legacy |-> Held(lreg)]
    /\ ollama = FALSE
    /\ pc = "idle"
    /\ req = NoReq
    /\ last = NoCall
    /\ InitAux

NextParse ==
    \/ \E j \in Decisions, w \in WrapKinds : ParseSemantic(j, w)
    \/ \E j \in LegacyDecisions, w \in WrapKinds : ParseLegacy(j, w)

SpecParse == InitParse /\ [][NextParse]_vars

(***************************************************************************)
(* app.core.registry.ToolRegistry on its own                               *)
(***************************************************************************)
RegisterTool(tool) ==
    LET r == register_tool(reg, tool) IN
    /\ reg' = r.tools
    /\ last' = [NoCall EXCEPT !.op = "register_tool", !.tool = tool, !.name = tool.name,
                  !.before = reg, !.out = r.out]
    /\ won' = IF Raised(r.out) THEN won ELSE [won EXCEPT !.core = Record(@, tool)]
    /\ UNCHANGED <<aux, treg, lreg, ollama, pc, req>>

GetTool(name) ==
    /\ last' = [NoCall EXCEPT !.op = "get_tool", !.name = name, !.before = reg,
                  !.tool = get_tool(reg, name)]
    /\ UNCHANGED <<aux, reg, treg, lreg, won, ollama, pc, req>>

InitReg ==
    /\ reg = <<>>
    /\ treg = <<>>
    /\ lreg = <<>>
    /\ won = [core |-> Held(reg), global |-> Held(treg), legacy |-> Held(lreg)]
    /\ ollama = FALSE
    /\ pc = "idle"
    /\ req = NoReq
    /\ last = NoCall
    /\ InitAux

NextReg ==
    \/ \E tool \in Tools : RegisterTool(tool)
    \/ \E name \in ToolNames \cup {"ghost"} : GetTool(name)

SpecReg == InitReg /\ [][NextReg]_vars

(***************************************************************************)
(* Fairness: the steps the program takes by itself are taken; the          *)
(* classifier backend is not obliged to answer or to fail.                 *)
(***************************************************************************)
ProgramStep ==
    \/ \E tool \in Tools, kwargs \in ParamDicts, env \in Envs : Execute(tool, kwargs, env)
    \/ \E name \in ToolNames \cup {"ghost"}, params \in ParamDicts \cup {None} :
          ExecuteTool(name, params)
    \/ \E op \in Ops, query \in Queries, imp \in ImportOutcomes :
          RequestShortCircuit(op, query, imp)
    \/ \E op \in Ops, query \in Queries, imp \in ImportOutcomes :
          RequestCallsClassifier(op, query, imp)

FairSpec == Spec /\ WF_vars(ProgramStep)

(***************************************************************************)
(* The three registry classes side by side                                 *)
(***************************************************************************)
\* mutant: a registration under an existing name is silently ignored
tool_registry_register_tool_keepfirst(tools, tool) ==
    IF tool.name \in RegNames(tools)
    THEN [out |-> Ret(None), tools |-> tools, warned |-> TRUE]
    ELSE [out |-> Ret(None), tools |-> Append(tools, tool), warned |-> FALSE]

\* app.core.tool_registry.ToolRegistry.register_tool: an existing name is
\* overwritten after a warning; a dict keeps the position of an existing key
tool_registry_register_tool(tools, tool) ==
    IF tool.name \in RegNames(tools)
    THEN [out |-> Ret(None),
          tools |-> [i \in 1..Len(tools) |-> IF tools[i].name = tool.name THEN tool ELSE tools[i]],
          warned |-> TRUE]
    ELSE [out |-> Ret(None), tools |-> Append(tools, tool), warned |-> FALSE]

\* app.core.tool_registry.ToolRegistry.get_tool: self._tools.get(name)
tool_registry_get_tool(tools, name) ==
    IF \E i \in 1..Len(tools) : tools[i].name = name
    THEN tools[CHOOSE i \in 1..Len(tools) : tools[i].name = name]
    ELSE NoTool

\* app.core.tool_registry.ToolRegistry.list_tools: list(self._tools.keys())
tool_registry_list_tools(tools) == PyList([i \in 1..Len(tools) |-> PyStr(<<tools[i].name>>)])

\* app.interfaces.tool_interface.ToolRegistry.register: cls._tools[tool.name] = tool
ToolRegistry_register(tools, tool) ==
    IF tool.name \in RegNames(tools)
    THEN [out |-> Ret(None),
          tools |-> [i \in 1..Len(tools) |-> IF tools[i].name = tool.name THEN tool ELSE tools[i]]]
    ELSE [out |-> Ret(None), tools |-> Append(tools, tool)]

\* the tool names in str order, as sorted() compares them
SortedNames == <<"analyze_image", "capture_screen", "ghost", "launch_app", "set_volume",
                 "volume_control">>
Sorted(S) == SelectSeq(SortedNames, LAMBDA n : n \in S)

\* tool.description
Description(name) == "<description>"

RECURSIVE ToolLines(_, _)
ToolLines(tools, names) ==
    IF names = <<>> THEN <<>>
    ELSE <<"\n", "  - ", Head(names), ": ", Description(Head(names))>>
         \o ToolLines(tools, Tail(names))

\* app.core.registry.ToolRegistry.list_tools: the prompt text, one line per
\* tool, in the order of sorted(self._tools.items())
list_tools(tools) ==
    IF tools = <<>> THEN PyStr(<<"No tools registered.">>)
    ELSE PyStr(<<"Available Tools:">> \o ToolLines(tools, Sorted(RegNames(tools))))

\* app.core.registry.ToolRegistry.get_tool_names: list(self._tools.keys())
get_tool_names(tools) == PyList([i \in 1..Len(tools) |-> PyStr(<<tools[i].name>>)])

\* the tools the registries are exercised with
RegistryTools == {t \in Tools : t.name \in {"set_volume", "launch_app"}}
RegistryNames == {"set_volume", "launch_app", "ghost"}

GlobalRegisterTool(tool) ==
    LET r == tool_registry_register_tool(treg, tool) IN
    /\ treg' = r.tools
    /\ last' = [NoCall EXCEPT !.op = "tool_registry.register_tool", !.tool = tool,
                  !.name = tool.name, !.before = treg, !.out = r.out]
    /\ won' = IF Raised(r.out) THEN won ELSE [won EXCEPT !.global = Record(@, tool)]
    /\ UNCHANGED <<aux, reg, lreg, ollama, pc, req>>

LegacyRegister(tool) ==
    LET r == ToolRegistry_register(lreg, tool) IN
    /\ lreg' = r.tools
    /\ last' = [NoCall EXCEPT !.op = "ToolRegistry.register", !.tool = tool,
                  !.name = tool.name, !.before = lreg, !.out = r.out]
    /\ won' = IF Raised(r.out) THEN won ELSE [won EXCEPT !.legacy = Record(@, tool)]
    /\ UNCHANGED <<aux, reg, treg, ollama, pc, req>>

GlobalGetTool(name) ==
    /\ last' = [NoCall EXCEPT !.op = "tool_registry.get_tool", !.name = name,
                  !.tool = tool_registry_get_tool(treg, name)]
    /\ UNCHANGED <<aux, reg, treg, lreg, won, ollama, pc, req>>

ListTools ==
    /\ last' = [NoCall EXCEPT !.op = "list_tools", !.out = Ret(list_tools(reg))]
    /\ UNCHANGED <<aux, reg, treg, lreg, won, ollama, pc, req>>

GetToolNames ==
    /\ last' = [NoCall EXCEPT !.op = "get_tool_names", !.out = Ret(get_tool_names(reg))]
    /\ UNCHANGED <<aux, reg, treg, lreg, won, ollama, pc, req>>

GlobalListTools ==
    /\ last' = [NoCall EXCEPT !.op = "tool_registry.list_tools",
                  !.out = Ret(tool_registry_list_tools(treg))]
    /\ UNCHANGED <<aux, reg, treg, lreg, won, ollama, pc, req>>

NextRegs ==
    \/ \E tool \in RegistryTools : RegisterTool(tool)
    \/ \E tool \in RegistryTools : GlobalRegisterTool(tool)
    \/ \E tool \in LegacyTools : LegacyRegister(tool)
    \/ \E name \in RegistryNames : GetTool(name)
    \/ \E name \in RegistryNames : GlobalGetTool(name)
    \/ ListTools
    \/ GetToolNames
    \/ GlobalListTools

SpecRegs == InitReg /\ [][NextRegs]_vars

(***************************************************************************)
(* app/utils/safe_execution.py, the safety.py error record and the legacy  *)
(* core/semantic_router.py execute.  An exception message is a sequence of *)
(* characters; a message built around it is a sequence whose other         *)
(* elements are the literal pieces of the f-string.                        *)
(***************************************************************************)
ErrorLimit == 150        \* len(error_msg) > 150 ; error_msg[:150]
TranslatedLimit == 100   \* error_msg[:100]
MaxOver == 2             \* messages are at most ErrorLimit + MaxOver characters long

Min(a, b) == IF a < b THEN a ELSE b
\* s[:n]
Take(s, n) == SubSeq(s, 1, Min(n, Len(s)))
\* a message of n characters
Msg(n) == [i \in 1..n |-> "x"]
MsgLens == {0, TranslatedLimit, TranslatedLimit + 1} \cup (ErrorLimit .. ErrorLimit + MaxOver)

\* the exception classes an implementation raises here
ExcTypes == {"ValueError", "FileNotFoundError", "AttributeError", "com_error"}
\* the translations table: err_type in error_type
Translations == [t \in {"FileNotFoundError", "AttributeError"} |->
                    IF t = "FileNotFoundError" THEN "The file could not be found"
                    ELSE "An internal error occurred"]
COM_FAILURE == "Failed to communicate with the Windows application. It may not be installed or accessible."

\* _generate_user_friendly_error(error), error an outcome that raised
generate_user_friendly_error(error) ==
    IF error.exc = "com_error" THEN <<COM_FAILURE>>
    ELSE IF error.exc \in DOMAIN Translations
         THEN <<Translations[error.exc], ": ">> \o Take(error.msg, TranslatedLimit)
    ELSE <<"Operation failed: ">> \o
         (IF Len(error.msg) > ErrorLimit THEN Take(error.msg, ErrorLimit) \o <<"...">>
          ELSE error.msg)

\* the default keys_to_redact
SensitiveWords == {"password", "secret", "token", "key", "auth", "credential", "api_key"}
\* for a parameter name k, the words w of SensitiveWords with
\* w in str(k).lower() ; the other names used here hold none
WordsIn(k) ==
    CASE k = "password" -> {"password"}
      [] k = "API_KEY"  -> {"key", "api_key"}
      [] k = "author"   -> {"auth"}
      [] k = "token"    -> {"token"}
      [] k = "secret"   -> {"secret"}
      [] OTHER          -> {}
REDACTED == PyStr(<<"[REDACTED]">>)

RECURSIVE redact_sensitive_data(_, _)
redact_sensitive_data(data, keys_to_redact) ==
    IF data.kind = "dict"
    THEN PyDict([k \in DOMAIN data.m |->
                    IF WordsIn(k) \cap keys_to_redact # {} THEN REDACTED
                    ELSE redact_sensitive_data(data.m[k], keys_to_redact)])
    ELSE IF data.kind = "list"
    THEN PyList([i \in 1..Len(data.items) |->
                    redact_sensitive_data(data.items[i], keys_to_redact)])
    ELSE data

\* a record of the error sink; params is None when the record has no
\* Parameters line
ErrorRecord(sink, name, error, params) ==
    [sink |-> sink, name |-> name, type |-> error.exc, message |-> error.msg,
     params |-> params]
NoRecord == [sink |-> "none", name |-> "", type |-> "none", message |-> <<>>,
             params |-> None]

\* log_tool_error(tool_name, error, params): "if params" is false for None
\* and for the empty dict
log_tool_error(tool_name, error, params) ==
    ErrorRecord("errors.log", tool_name, error,
                IF params = None \/ params = EmptyDict THEN EmptyDict
                ELSE redact_sensitive_data(params, SensitiveWords))

\* legacy Result.ok(data)
Result_ok(data) ==
    [kind |-> "Result", success |-> TRUE, data |-> data, error |-> None,
     error_code |-> None, metadata |-> EmptyDict]

\* safe_execution.safe_execute(fn, tool_name=..., **kwargs), o the outcome
\* of fn(**kwargs)
legacy_safe_execute(o, tool_name, kwargs) ==
    IF Raised(o)
    THEN [out |-> Ret(Result_fail(PyStr(generate_user_friendly_error(o)), PyStr(<<o.exc>>),
                                  EmptyDict)),
          log |-> log_tool_error(tool_name, o, kwargs)]
    ELSE [out |-> Ret(IF o.val.kind = "Result" THEN o.val ELSE Result_ok(o.val)),
          log |-> NoRecord]

\* the wrapper of @safe_tool_execution around fn(params), o the outcome of
\* fn(params): params is args[0]
safe_tool_execution(o, name, params) ==
    IF Raised(o)
    THEN [out |-> Ret(Result_fail(PyStr(generate_user_friendly_error(o)), PyStr(<<o.exc>>),
                                  PyDict([k \in {"tool", "original_error"} |->
                                             IF k = "tool" THEN PyStr(<<name>>)
                                             ELSE PyStr(Take(o.msg, 200))]))),
          log |-> log_tool_error(name, o, IF params.kind = "dict" THEN params ELSE EmptyDict)]
    ELSE [out |-> Ret(IF o.val.kind = "Result" THEN o.val ELSE Result_ok(o.val)),
          log |-> NoRecord]

\* tool_interface.BaseTool.run(params): the lambda takes no arguments, so
\* safe_execute receives no kwargs
LegacyBaseTool_run(name, params, o) == legacy_safe_execute(o, name, EmptyDict)

\* safety.safe_execute's wrapper around func, with the record it writes to
\* app.log: function name, error type, message and traceback
safety_wrapper(name, kwargs, o) ==
    [out |-> safe_execute(o),
     log |-> IF Raised(o) THEN ErrorRecord("app.log", name, o, None) ELSE NoRecord]

\* core/semantic_router.py SemanticRouter.execute once route() has found the
\* tool: tool.handler(**params), the exception logged and raised again
core_router_execute(name, params, o) ==
    [out |-> o, log |-> NoRecord]

\* parameter maps of an invocation
SafeParams ==
    { EmptyDict,
      PyDict([k \in {"level"} |-> PyInt(50)]),
      PyDict([k \in {"level", "password"} |-> IF k = "level" THEN PyInt(50) ELSE PyStr(<<"hunter2">>)]),
      PyDict([k \in {"API_KEY"} |-> PyStr(<<"abc">>)]),
      PyDict([k \in {"author"} |-> PyStr(<<"bob">>)]),
      PyDict([k \in {"opts"} |-> PyDict([j \in {"token", "level"} |->
                                            IF j = "token" THEN PyStr(<<"t">>) ELSE PyInt(50)])]),
      PyDict([k \in {"items"} |-> PyList(<<PyDict([j \in {"secret"} |-> PyStr(<<"s">>)]),
                                           PyInt(50)>>)]) }
\* what an implementation does: return a value or raise
ImplOutcomes ==
    {Ret(PyStr(<<"done">>))} \cup {Raise(t, Msg(n)) : t \in ExcTypes, n \in MsgLens}

Invoked(op, name, params, o, r) ==
    [NoCall EXCEPT !.op = op, !.name = name, !.params = params,
                   !.impl = o, !.out = r.out, !.log = r.log]

\* BaseTool.execute(**kwargs) of app/interfaces/tool.py
InvokeExecute(params, o) ==
    /\ last' = Invoked("BaseTool.execute", "set_volume", params, o,
                       safety_wrapper("_run", params, o))
    /\ UNCHANGED <<aux, reg, treg, lreg, won, ollama, pc, req>>
\* BaseTool.run(params) of app/interfaces/tool_interface.py
InvokeRun(params, o) ==
    /\ last' = Invoked("BaseTool.run", "volume_control", params, o,
                       LegacyBaseTool_run("volume_control", params, o))
    /\ UNCHANGED <<aux, reg, treg, lreg, won, ollama, pc, req>>
\* a function decorated with @safe_tool_execution, called with params
InvokeDecorated(params, o) ==
    /\ last' = Invoked("safe_tool_execution", "create_document", params, o,
                       safe_tool_execution(o, "create_document", params))
    /\ UNCHANGED <<aux, reg, treg, lreg, won, ollama, pc, req>>
\* SemanticRouter.execute of core/semantic_router.py
InvokeHandler(params, o) ==
    /\ last' = Invoked("SemanticRouter.execute", "set_volume", params, o,
                       core_router_execute("set_volume", params, o))
    /\ UNCHANGED <<aux, reg, treg, lreg, won, ollama, pc, req>>

NextSafe ==
    \E params \in SafeParams, o \in ImplOutcomes :
        \/ InvokeExecute(params, o)
        \/ InvokeRun(params, o)
        \/ InvokeDecorated(params, o)
        \/ InvokeHandler(params, o)

SpecSafe == InitReg /\ [][NextSafe]_vars

(***************************************************************************)
(* Calls issued from two threads.  A call is a sequence of steps; between  *)
(* two steps the other thread may run.  A step is one read or one write of *)
(* shared state (a dict operation on _tools, the module global _logger,    *)
(* the handler list of the logger).                                        *)
(***************************************************************************)
Other(t) == CHOOSE u \in Threads : u # t
InExecute(r) == r.op = "execute" /\ r.pc \notin {"idle", "done"}

\* mutant: the wrapper reads its keyword arguments from a slot shared by
\* the calls in progress
ClosureKwargs_shared(threads, t) ==
    IF InExecute(threads[Other(t)]) THEN threads[Other(t)].kwargs ELSE threads[t].kwargs

\* tool.py 147-149: _execute_wrapper closes over the kwargs of its own call
ClosureKwargs(threads, t) == threads[t].kwargs

\* the invocations issued concurrently
ExecLevels == {10, 90}
ExecCalls ==
    [name : {"set_volume"}, kwargs : {PyDict([k \in {"level"} |-> PyInt(l)]) : l \in ExecLevels},
     env : {"ok", "raises"}]
    \cup [name : {"launch_app"}, kwargs : {PyDict([k \in {"app_name"} |-> PyStr(<<"notepad">>)])},
          env : {"ok", "raises"}]

Step(t, r) == th' = [th EXCEPT ![t] = r]
Frame == UNCHANGED <<reg, treg, lreg, won, ollama, pc, req, last>>

\* tool = registry.get_tool(name) of a caller that goes on to tool.execute
ExecBegin(t, c) ==
    /\ th[t].pc = "idle"
    /\ Step(t, [IdleThread EXCEPT !.pc = "run", !.op = "execute", !.name = c.name,
                                  !.kwargs = c.kwargs, !.env = c.env,
                                  !.tool = get_tool(reg, c.name)])
    /\ UNCHANGED <<logger, discovered, second, ctx>>
    /\ Frame

\* self._run(keyword arguments) inside the wrapper of safe_execute
ExecRun(t) ==
    /\ th[t].pc = "run"
    /\ th[t].tool # NoTool
    /\ LET o == Tool_run(th[t].tool, ClosureKwargs(th, t), th[t].env) IN
       Step(t, [th[t] EXCEPT !.pc = IF Raised(o) THEN "get_logger" ELSE "done",
                             !.out = safe_execute(o),
                             !.seen = IF InExecute(th[Other(t)]) THEN <<"overlap">> ELSE <<>>])
    /\ UNCHANGED <<logger, discovered, second, ctx>>
    /\ Frame

\* _get_logger: if _logger is None
LoggerTest(t) ==
    /\ th[t].pc = "get_logger"
    /\ Step(t, [th[t] EXCEPT !.pc = IF logger.set THEN "emit" ELSE "assign"])
    /\ UNCHANGED <<logger, discovered, second, ctx>>
    /\ Frame

\* _logger = logging.getLogger("sovereign.safety")
LoggerAssign(t) ==
    /\ th[t].pc = "assign"
    /\ UNCHANGED <<discovered, second, ctx>>
    /\ logger' = [logger EXCEPT !.set = TRUE]
    /\ Step(t, [th[t] EXCEPT !.pc = "clear"])
    /\ Frame

\* _logger.handlers.clear()
LoggerClear(t) ==
    /\ th[t].pc = "clear"
    /\ UNCHANGED <<discovered, second, ctx>>
    /\ logger' = [logger EXCEPT !.handlers = 0]
    /\ Step(t, [th[t] EXCEPT !.pc = "add"])
    /\ Frame

\* _logger.addHandler(file_handler)
LoggerAdd(t) ==
    /\ th[t].pc = "add"
    /\ UNCHANGED <<discovered, second, ctx>>
    /\ logger' = [logger EXCEPT !.handlers = @ + 1]
    /\ Step(t, [th[t] EXCEPT !.pc = "emit"])
    /\ Frame

\* logger.error(error_message): one copy in app.log per handler
LoggerEmit(t) ==
    /\ th[t].pc = "emit"
    /\ UNCHANGED <<discovered, second, ctx>>
    /\ logger' = [logger EXCEPT !.written[t] = logger.handlers]
    /\ Step(t, [th[t] EXCEPT !.pc = "done"])
    /\ Frame

\* registry.get_tool(name) on its own
ReadGetTool(t, name) ==
    /\ th[t].pc = "idle"
    /\ Step(t, [IdleThread EXCEPT !.pc = "done", !.op = "get_tool", !.name = name,
                                  !.tool = get_tool(reg, name),
                                  !.seen = IF InExecute(th[Other(t)]) THEN <<"overlap">> ELSE <<>>])
    /\ UNCHANGED <<logger, discovered, second, ctx>>
    /\ Frame

\* registry.list_tools(): the test  if not self._tools
ReadListBegin(t) ==
    /\ th[t].pc = "idle"
    /\ Step(t, IF reg = <<>>
               THEN [IdleThread EXCEPT !.pc = "done", !.op = "list_tools",
                                       !.out = Ret(PyStr(<<"No tools registered.">>))]
               ELSE [IdleThread EXCEPT !.pc = "sorted", !.op = "list_tools"])
    /\ UNCHANGED <<logger, discovered, second, ctx>>
    /\ Frame

\* registry.list_tools(): sorted(self._tools.items()) and the lines built
\* from it
ReadListSorted(t) ==
    /\ th[t].pc = "sorted"
    /\ Step(t, [th[t] EXCEPT !.pc = "done",
                             !.out = Ret(PyStr(<<"Available Tools:">>
                                               \o ToolLines(reg, Sorted(RegNames(reg))))),
                             !.seen = IF InExecute(th[Other(t)]) THEN <<"overlap">> ELSE <<>>])
    /\ UNCHANGED <<logger, discovered, second, ctx>>
    /\ Frame

\* the caller takes the value of its call
Return(t) ==
    /\ th[t].pc = "done"
    /\ Step(t, IdleThread)
    /\ UNCHANGED <<logger, discovered, second, ctx>>
    /\ Frame

\* the registry two concurrent callers share
InitExec ==
    /\ reg = BootRegistry({"set_volume", "launch_app"})
    /\ treg = <<>>
    /\ lreg = <<>>
    /\ won = [core |-> Held(reg), global |-> Held(treg), legacy |-> Held(lreg)]
    /\ ollama = FALSE
    /\ pc = "idle"
    /\ req = NoReq
    /\ last = NoCall
    /\ InitAux

ThreadStep(t) ==
    \/ \E c \in ExecCalls : ExecBegin(t, c)
    \/ ExecRun(t)
    \/ LoggerTest(t)
    \/ LoggerAssign(t)
    \/ LoggerClear(t)
    \/ LoggerAdd(t)
    \/ LoggerEmit(t)
    \/ \E name \in RegistryNames : ReadGetTool(t, name)
    \/ ReadListBegin(t)
    \/ ReadListSorted(t)
    \/ Return(t)

NextExec == \E t \in Threads : ThreadStep(t)

SpecExec == InitExec /\ [][NextExec]_vars

(***************************************************************************)
(* Registry mutations interleaved with readers.  A call in progress keeps  *)
(* in "snap" every value its registry has had since the call began.        *)
(***************************************************************************)
\* _tools of the registry r changes to tools: every call in progress on r
\* has now lived through that value as well
Witnessed(threads, t, r, tools) ==
    [u \in Threads |->
        IF u # t /\ threads[u].pc \notin {"idle", "done"} /\ threads[u].env = r
        THEN [threads[u] EXCEPT !.snap = @ \cup {tools}]
        ELSE threads[u]]

\* app.core.registry register_tool: the test  tool.name in self._tools
CoreRegisterTest(t, tool) ==
    /\ th[t].pc = "idle"
    /\ Step(t, IF tool.name \in RegNames(reg)
               THEN [IdleThread EXCEPT !.pc = "done", !.op = "register_tool", !.tool = tool,
                                       !.env = "core", !.out = register_tool(reg, tool).out]
               ELSE [IdleThread EXCEPT !.pc = "store", !.op = "register_tool", !.tool = tool,
                                       !.env = "core"])
    /\ UNCHANGED <<logger, discovered, second, ctx>>
    /\ Frame

\* app.core.registry register_tool: self._tools[tool.name] = tool
CoreRegisterStore(t) ==
    /\ th[t].pc = "store"
    /\ LET tools == ToolRegistry_register(reg, th[t].tool).tools IN
       /\ reg' = tools
       /\ won' = [won EXCEPT !.core = Record(@, th[t].tool)]
       /\ th' = [Witnessed(th, t, "core", tools) EXCEPT ![t] = [th[t] EXCEPT !.pc = "done"]]
    /\ UNCHANGED <<logger, discovered, second, ctx, treg, lreg, ollama, pc, req, last>>

\* app.core.registry get_tool
CoreGetTool(t, name) ==
    /\ th[t].pc = "idle"
    /\ Step(t, [IdleThread EXCEPT !.pc = "done", !.op = "get_tool", !.name = name,
                                  !.env = "core", !.snap = {reg},
                                  !.out = Ret(get_tool(reg, name))])
    /\ UNCHANGED <<logger, discovered, second, ctx>>
    /\ Frame

\* app.core.registry list_tools: the test  if not self._tools
CoreListTest(t) ==
    /\ th[t].pc = "idle"
    /\ Step(t, IF reg = <<>>
               THEN [IdleThread EXCEPT !.pc = "done", !.op = "list_tools", !.env = "core",
                                       !.snap = {reg},
                                       !.out = Ret(PyStr(<<"No tools registered.">>))]
               ELSE [IdleThread EXCEPT !.pc = "sorted", !.op = "list_tools", !.env = "core",
                                       !.snap = {reg}])
    /\ UNCHANGED <<logger, discovered, second, ctx>>
    /\ Frame

\* app.core.tool_registry register_tool: self._tools[tool.name] = tool
GlobalRegisterStore(t, tool) ==
    /\ th[t].pc = "idle"
    /\ LET tools == tool_registry_register_tool(treg, tool).tools IN
       /\ treg' = tools
       /\ won' = [won EXCEPT !.global = Record(@, tool)]
       /\ th' = [Witnessed(th, t, "global", tools) EXCEPT
                    ![t] = [IdleThread EXCEPT !.pc = "done", !.op = "register_tool",
                                              !.tool = tool, !.env = "global"]]
    /\ UNCHANGED <<logger, discovered, second, ctx, reg, lreg, ollama, pc, req, last>>

\* app.core.tool_registry clear: self._tools.clear()
GlobalClearTools(t) ==
    /\ th[t].pc = "idle"
    /\ treg' = <<>>
    /\ won' = [won EXCEPT !.global = <<>>]
    /\ th' = [Witnessed(th, t, "global", <<>>) EXCEPT
                 ![t] = [IdleThread EXCEPT !.pc = "clear_flag", !.op = "clear",
                                           !.env = "global"]]
    /\ UNCHANGED <<logger, discovered, second, ctx, reg, lreg, ollama, pc, req, last>>

\* app.core.tool_registry clear: self._discovered = False
GlobalClearFlag(t) ==
    /\ th[t].pc = "clear_flag"
    /\ discovered' = FALSE
    /\ Step(t, [th[t] EXCEPT !.pc = "done"])
    /\ UNCHANGED <<logger, second, ctx>>
    /\ Frame

\* app.core.tool_registry get_tool
GlobalReadGetTool(t, name) ==
    /\ th[t].pc = "idle"
    /\ Step(t, [IdleThread EXCEPT !.pc = "done", !.op = "get_tool", !.name = name,
                                  !.env = "global", !.snap = {treg},
                                  !.out = Ret(tool_registry_get_tool(treg, name))])
    /\ UNCHANGED <<logger, discovered, second, ctx>>
    /\ Frame

\* app.core.tool_registry list_tools
GlobalReadListTools(t) ==
    /\ th[t].pc = "idle"
    /\ Step(t, [IdleThread EXCEPT !.pc = "done", !.op = "list_tools", !.env = "global",
                                  !.snap = {treg},
                                  !.out = Ret(tool_registry_list_tools(treg))])
    /\ UNCHANGED <<logger, discovered, second, ctx>>
    /\ Frame

\* app.core.tool_registry execute_tool: tool = self.get_tool(name)
GlobalExecuteLookup(t, name) ==
    /\ th[t].pc = "idle"
    /\ Step(t, [IdleThread EXCEPT !.pc = "dispatch", !.op = "execute_tool", !.name = name,
                                  !.env = "global", !.snap = {treg},
                                  !.tool = tool_registry_get_tool(treg, name)])
    /\ UNCHANGED <<logger, discovered, second, ctx>>
    /\ Frame

\* app.core.tool_registry execute_tool: the failure built from
\* list(self._tools.keys()) when the lookup found nothing, tool.run(params)
\* otherwise
GlobalExecuteDispatch(t) ==
    /\ th[t].pc = "dispatch"
    /\ Step(t, [th[t] EXCEPT !.pc = "done",
                  !.out = IF th[t].tool = NoTool
                          THEN Ret(Result_fail(PyStr(<<"Tool not found: ", th[t].name>>),
                                               PyStr(<<"TOOL_NOT_FOUND">>),
                                               PyDict([k \in {"available_tools"} |->
                                                          tool_registry_list_tools(treg)])))
                          ELSE Raise("AttributeError",
                                     <<"'BaseTool' object has no attribute 'run'">>)])
    /\ UNCHANGED <<logger, discovered, second, ctx>>
    /\ Frame

\* the tools registered and the names looked up while the registries change
MutTools == {tool \in Tools : tool.name = "set_volume"}
MutNames == {"set_volume", "ghost"}

MutStep(t) ==
    \/ \E tool \in MutTools : CoreRegisterTest(t, tool)
    \/ CoreRegisterStore(t)
    \/ \E name \in MutNames : CoreGetTool(t, name)
    \/ CoreListTest(t)
    \/ ReadListSorted(t)
    \/ \E tool \in MutTools : GlobalRegisterStore(t, tool)
    \/ GlobalClearTools(t)
    \/ GlobalClearFlag(t)
    \/ \E name \in MutNames : GlobalReadGetTool(t, name)
    \/ GlobalReadListTools(t)
    \/ \E name \in MutNames : GlobalExecuteLookup(t, name)
    \/ GlobalExecuteDispatch(t)
    \/ Return(t)

NextMut == \E t \in Threads : MutStep(t)

SpecMut == InitReg /\ [][NextMut]_vars

(***************************************************************************)
(* Two separately constructed registries of each class.  The first         *)
(* instances are the ones above (reg, treg, lreg); "second" holds the      *)
(* _tools dicts that the __init__ of the second instances created.  The    *)
(* tool_interface class has no __init__ : _tools is a class attribute and  *)
(* its methods are classmethods, so both instances use lreg.               *)
(***************************************************************************)
RegistryClasses == {"core", "global", "legacy"}
Instances == {1, 2}

\* self._tools (cls._tools) as instance i of class c reaches it
ToolsOf(c, i) ==
    CASE c = "core"   -> IF i = 1 THEN reg ELSE second.core
      [] c = "global" -> IF i = 1 THEN treg ELSE second.global
      [] c = "legacy" -> lreg

\* the registration method of class c on the dict tools
RegisterIn(c, tools, tool) ==
    CASE c = "core"   -> register_tool(tools, tool)
      [] c = "global" -> [out |-> tool_registry_register_tool(tools, tool).out,
                          tools |-> tool_registry_register_tool(tools, tool).tools]
      [] c = "legacy" -> ToolRegistry_register(tools, tool)

\* the dict of instance i of class c becomes tools
Store(c, i, tools) ==
    /\ reg' = IF c = "core" /\ i = 1 THEN tools ELSE reg
    /\ treg' = IF c = "global" /\ i = 1 THEN tools ELSE treg
    /\ lreg' = IF c = "legacy" THEN tools ELSE lreg
    /\ second' = IF c # "legacy" /\ i = 2 THEN [second EXCEPT ![c] = tools] ELSE second
    /\ won' = IF i = 1 \/ c = "legacy" THEN [won EXCEPT ![c] = Held(tools)] ELSE won

IsoTools(c) == IF c = "legacy" THEN LegacyTools ELSE MutTools

\* register_tool / register called on instance i of class c
IsoRegister(c, i, tool) ==
    LET r == RegisterIn(c, ToolsOf(c, i), tool) IN
    /\ Store(c, i, r.tools)
    /\ last' = [NoCall EXCEPT !.op = "register", !.obj = <<c, i>>, !.tool = tool,
                              !.name = tool.name, !.out = r.out]
    /\ UNCHANGED <<th, logger, discovered, ctx, ollama, pc, req>>

\* clear called on instance i of class c (app/core/registry.py has none)
IsoClear(c, i) ==
    /\ c # "core"
    /\ Store(c, i, <<>>)
    /\ discovered' = IF c = "global" /\ i = 1 THEN FALSE ELSE discovered
    /\ last' = [NoCall EXCEPT !.op = "clear", !.obj = <<c, i>>]
    /\ UNCHANGED <<th, logger, ctx, ollama, pc, req>>

\* get_tool / get called on instance i of class c
IsoGet(c, i, name) ==
    /\ last' = [NoCall EXCEPT !.op = "get", !.obj = <<c, i>>, !.name = name,
                              !.tool = get_tool(ToolsOf(c, i), name)]
    /\ UNCHANGED <<aux, reg, treg, lreg, won, ollama, pc, req>>

\* get_tool_names / list_tools / list_names called on instance i of class c
IsoList(c, i) ==
    /\ last' = [NoCall EXCEPT !.op = "list", !.obj = <<c, i>>,
                              !.out = Ret(get_tool_names(ToolsOf(c, i)))]
    /\ UNCHANGED <<aux, reg, treg, lreg, won, ollama, pc, req>>

NextIso ==
    \E c \in RegistryClasses, i \in Instances :
        \/ \E tool \in IsoTools(c) : IsoRegister(c, i, tool)
        \/ IsoClear(c, i)
        \/ \E name \in MutNames \cup LegacyToolNames : IsoGet(c, i, name)
        \/ IsoList(c, i)

SpecIso == InitReg /\ [][NextIso]_vars

(***************************************************************************)
(* core/context_manager.py  ContextManager: _messages and _action_history  *)
(* are deques with maxlen = max_context_messages / max_action_history.     *)
(* The i-th message added and the i-th action recorded are identified by i.*)
(***************************************************************************)
MaxCap == 3                  \* max_context_messages and max_action_history are in 1..MaxCap
Capacities == 1..MaxCap
MaxAdds == MaxCap + 2        \* messages added, actions recorded, and the largest limit

Message(i) == [role |-> "user", content |-> <<"Message ", ToString(i)>>, id |-> i]
ActionRecord(i) == [action_type |-> "click", tool_name |-> "windows_control",
                    success |-> TRUE, id |-> i]

\* deque.append(x) on a deque with maxlen = cap
deque_append(d, x, cap) ==
    IF cap = 0 THEN d
    ELSE IF Len(d) = cap THEN Append(Tail(d), x)
    ELSE Append(d, x)

\* s[-k:] for k > 0
LastOf(s, k) == IF k >= Len(s) THEN s ELSE SubSeq(s, Len(s) - k + 1, Len(s))

\* messages = list(d); if limit: messages = messages[-limit:]
limited(s, limit) ==
    IF limit = None \/ limit.n = 0 THEN s ELSE LastOf(s, limit.n)

Limits == {None} \cup {PyInt(k) : k \in 0..MaxAdds}

NewContext(cm, ca) == [max_context_messages |-> cm, max_action_history |-> ca,
                       messages |-> <<>>, actions |-> <<>>, added |-> 0, recorded |-> 0]

CtxFrame == UNCHANGED <<th, logger, discovered, second, reg, treg, lreg, won, ollama, pc, req>>

\* ContextManager.add_message
AddMessage ==
    /\ ctx.added < MaxAdds
    /\ ctx' = [ctx EXCEPT !.added = @ + 1,
                          !.messages = deque_append(@, Message(ctx.added + 1),
                                                    ctx.max_context_messages)]
    /\ last' = [NoCall EXCEPT !.op = "add_message", !.out = Ret(Message(ctx.added + 1))]
    /\ CtxFrame

\* ContextManager.get_messages(limit)
GetMessages(limit) ==
    /\ last' = [NoCall EXCEPT !.op = "get_messages", !.params = limit,
                              !.out = Ret(PyList(limited(ctx.messages, limit)))]
    /\ UNCHANGED ctx
    /\ CtxFrame

\* ContextManager.record_action
RecordAction ==
    /\ ctx.recorded < MaxAdds
    /\ ctx' = [ctx EXCEPT !.recorded = @ + 1,
                          !.actions = deque_append(@, ActionRecord(ctx.recorded + 1),
                                                   ctx.max_action_history)]
    /\ last' = [NoCall EXCEPT !.op = "record_action",
                              !.out = Ret(ActionRecord(ctx.recorded + 1))]
    /\ CtxFrame

\* ContextManager.get_action_history(limit)
GetActionHistory(limit) ==
    /\ last' = [NoCall EXCEPT !.op = "get_action_history", !.params = limit,
                              !.out = Ret(PyList(limited(ctx.actions, limit)))]
    /\ UNCHANGED ctx
    /\ CtxFrame

\* ContextManager.get_last_action
GetLastAction ==
    /\ last' = [NoCall EXCEPT !.op = "get_last_action",
                              !.out = Ret(IF ctx.actions # <<>>
                                          THEN ctx.actions[Len(ctx.actions)] ELSE None)]
    /\ UNCHANGED ctx
    /\ CtxFrame

InitCtx ==
    /\ reg = <<>>
    /\ treg = <<>>
    /\ lreg = <<>>
    /\ won = [core |-> Held(reg), global |-> Held(treg), legacy |-> Held(lreg)]
    /\ ollama = FALSE
    /\ pc = "idle"
    /\ req = NoReq
    /\ last = NoCall
    /\ th = [t \in Threads |-> IdleThread]
    /\ logger = NoLogger
    /\ discovered = FALSE
    /\ second = [core |-> <<>>, global |-> <<>>]
    /\ ctx \in {NewContext(cm, ca) : cm \in Capacities, ca \in Capacities}

NextCtx ==
    \/ AddMessage
    \/ \E limit \in Limits : GetMessages(limit)
    \/ RecordAction
    \/ \E limit \in Limits : GetActionHistory(limit)
    \/ GetLastAction

SpecCtx == InitCtx /\ [][NextCtx]_vars

(***************************************************************************)
(* src/core/router.py  IntentRouter.route_intent and its keyword fallback  *)
(* A query is a sequence of words; the blanks between them hold no keyword *)
(***************************************************************************)
QueryWords == {"Volume", "open", "Word", "brunch", "GOOGLE", "hello"}
PairWords == {"Volume", "open", "Word", "GOOGLE"}
RouteQueries == {<<>>} \cup {<<a>> : a \in QueryWords}
                \cup {q \in {<<a, b>> : a, b \in PairWords} : q[1] # q[2]}

\* str.lower() of one word
LowerWord(w) == CASE w = "Volume" -> "volume"
                  [] w = "Word" -> "word"
                  [] w = "GOOGLE" -> "google"
                  [] OTHER -> w

\* user_query.lower()
str_lower(query) == [i \in DOMAIN query |-> LowerWord(query[i])]

\* the keywords of _fallback_result that are substrings of a word; the
\* comparison is case-sensitive
KeywordsOf(w) == CASE w = "volume" -> {"volume"}
                   [] w = "open" -> {"open"}
                   [] w = "word" -> {"word"}
                   [] w = "brunch" -> {"run"}
                   [] w = "google" -> {"google"}
                   [] OTHER -> {}

\* any(kw in query_lower for kw in keywords)
AnyKeyword(query_lower, keywords) ==
    \E i \in DOMAIN query_lower : KeywordsOf(query_lower[i]) \cap keywords # {}

SystemKeywords == {"volume", "mute", "unmute", "brightness", "shutdown", "restart", "sleep"}
AppKeywords == {"open", "close", "launch", "start", "run", "focus"}
OfficeKeywords == {"word", "excel", "document", "spreadsheet", "cell"}
BrowserKeywords == {"search", "google", "browse", "website", "url", "http"}

RouterResult(category, action, parameters, confidence, raw_query) ==
    [kind |-> "RouterResult", category |-> category, action |-> action,
     parameters |-> parameters, confidence |-> confidence, raw_query |-> raw_query]

\* _fallback_result with the APP_CONTROL group tested before SYSTEM_CONTROL
fallback_result_app_first(user_query) ==
    LET query_lower == str_lower(user_query) IN
    IF AnyKeyword(query_lower, AppKeywords)
    THEN RouterResult("APP_CONTROL", PyStr(<<"unknown">>), EmptyDict, "0.5", user_query)
    ELSE IF AnyKeyword(query_lower, SystemKeywords)
    THEN RouterResult("SYSTEM_CONTROL", PyStr(<<"unknown">>), EmptyDict, "0.5", user_query)
    ELSE IF AnyKeyword(query_lower, OfficeKeywords)
    THEN RouterResult("OFFICE_WORK", PyStr(<<"unknown">>), EmptyDict, "0.5", user_query)
    ELSE IF AnyKeyword(query_lower, BrowserKeywords)
    THEN RouterResult("BROWSER", PyStr(<<"unknown">>), EmptyDict, "0.5", user_query)
    ELSE RouterResult("GENERAL_CHAT", PyStr(<<"chat">>), EmptyDict, "0.5", user_query)

\* IntentRouter._fallback_result(user_query)
fallback_result(user_query) ==
    LET query_lower == str_lower(user_query) IN
    IF AnyKeyword(query_lower, SystemKeywords)
    THEN RouterResult("SYSTEM_CONTROL", PyStr(<<"unknown">>), EmptyDict, "0.5", user_query)
    ELSE IF AnyKeyword(query_lower, AppKeywords)
    THEN RouterResult("APP_CONTROL", PyStr(<<"unknown">>), EmptyDict, "0.5", user_query)
    ELSE IF AnyKeyword(query_lower, OfficeKeywords)
    THEN RouterResult("OFFICE_WORK", PyStr(<<"unknown">>), EmptyDict, "0.5", user_query)
    ELSE IF AnyKeyword(query_lower, BrowserKeywords)
    THEN RouterResult("BROWSER", PyStr(<<"unknown">>), EmptyDict, "0.5", user_query)
    ELSE RouterResult("GENERAL_CHAT", PyStr(<<"chat">>), EmptyDict, "0.5", user_query)

\* bool(v)
Truth(v) == CASE v.kind = "None" -> FALSE
              [] v.kind = "int" -> v.n # 0
              [] v.kind = "bool" -> v.b
              [] v.kind = "str" -> v.s # <<>>
              [] v.kind = "list" -> v.items # <<>>
              [] v.kind = "dict" -> DOMAIN v.m # {}
              [] OTHER -> TRUE

\* IntentCategory.from_string(value) for the upper-case member names the
\* classifier emits and for the default; a value without upper() raises
IntentCategories == {"SYSTEM_CONTROL", "APP_CONTROL", "OFFICE_WORK", "BROWSER", "GENERAL_CHAT"}
from_string(value) ==
    IF value.kind # "str"
    THEN Raise("AttributeError", <<"'", value.kind, "' object has no attribute 'upper'">>)
    ELSE IF Len(value.s) = 1 /\ value.s[1] \in IntentCategories THEN Ret(value.s[1])
    ELSE Ret("GENERAL_CHAT")

\* the body of the try block of route_intent after llm.invoke returned text
route_intent_try(user_query, text) ==
    LET parsed == parse_json_response(Strip(text)) IN
    IF Truth(parsed)
    THEN IF parsed.kind # "dict"
         THEN Raise("AttributeError", <<"'", parsed.kind, "' object has no attribute 'get'">>)
         ELSE LET category == from_string(Get(parsed, "category", PyStr(<<"GENERAL_CHAT">>))) IN
              IF Raised(category) THEN category
              ELSE Ret(RouterResult(category.val, Get(parsed, "action", None),
                                    Get(parsed, "parameters", EmptyDict), "1.0", user_query))
    ELSE Ret(fallback_result(user_query))

\* IntentRouter.route_intent(user_query) when _get_llm / llm.invoke had the
\* outcome chat; every Exception of the try block ends in the fallback
route_intent(user_query, chat) ==
    LET o == IF Raised(chat) THEN chat ELSE route_intent_try(user_query, chat.val.s) IN
    IF Raised(o) THEN Ret(fallback_result(user_query)) ELSE o

\* what _get_llm / llm.invoke can produce: an exception or a text
RouterValues == Objects("category", CategoryValues, "parameters", {EmptyDict}) \cup JsonAtoms
RouterTexts == UNION {Wrappings(Render(v)) : v \in RouterValues}
               \cup {Prose(n) : n \in 0..MaxProse}
RouterChats == {Raise("ConnectionError", <<"refused">>), Raise("ImportError", <<"langchain_ollama">>)}
               \cup {Ret(PyStr(t)) : t \in RouterTexts}

RouteIntentFails(user_query, chat) ==
    /\ Raised(chat)
    /\ last' = [NoCall EXCEPT !.op = "route_intent", !.query = user_query, !.chat = chat,
                  !.out = route_intent(user_query, chat)]
    /\ UNCHANGED <<aux, reg, treg, lreg, won, ollama, pc, req>>

RouteIntentAnswers(user_query, chat) ==
    /\ ~Raised(chat)
    /\ last' = [NoCall EXCEPT !.op = "route_intent", !.query = user_query, !.chat = chat,
                  !.out = route_intent(user_query, chat)]
    /\ UNCHANGED <<aux, reg, treg, lreg, won, ollama, pc, req>>

NextRoute ==
    \/ \E q \in RouteQueries, chat \in RouterChats : RouteIntentFails(q, chat)
    \/ \E q \in RouteQueries, chat \in RouterChats : RouteIntentAnswers(q, chat)

SpecRoute == InitParse /\ [][NextRoute]_vars

(***************************************************************************)
(* app/utils/safe_execution.py  the wrapper of @safe_tool_execution called *)
(* with a positional argument and keyword arguments                        *)
(***************************************************************************)
\* d.update(other): d itself is changed
dict_update(d, other) ==
    PyDict([k \in (DOMAIN d.m) \cup (DOMAIN other.m) |->
               IF k \in DOMAIN other.m THEN other.m[k] ELSE d.m[k]])

\* wrapper(arg, **kwargs), o the outcome of fn(arg, **kwargs): the result,
\* the error record, and the object the caller passed as arg once the
\* wrapper has returned.  In the except branch params is args[0] itself when
\* that is a dict, a new dict otherwise, and params.update(kwargs) follows
safe_tool_execution_wrapper(o, name, arg, kwargs) ==
    LET params == dict_update(IF arg.kind = "dict" THEN arg ELSE EmptyDict, kwargs)
        r == safe_tool_execution(o, name, params)
    IN [out |-> r.out, log |-> r.log,
        arg |-> IF Raised(o) /\ arg.kind = "dict" THEN params ELSE arg]

WrapArgs == SafeParams \cup {PyStr(<<"report.docx">>)}
WrapKwargs == {EmptyDict,
               PyDict([k \in {"level"} |-> PyInt(10)]),
               PyDict([k \in {"overwrite"} |-> PyBool(TRUE)])}

\* a function decorated with @safe_tool_execution, called as fn(arg, **kwargs)
InvokeDecoratedWith(arg, kwargs, o) ==
    LET r == safe_tool_execution_wrapper(o, "create_document", arg, kwargs) IN
    /\ last' = [Invoked("safe_tool_execution(**kwargs)", "create_document", arg, o, r)
                  EXCEPT !.kwargs = kwargs, !.after = r.arg]
    /\ UNCHANGED <<aux, reg, treg, lreg, won, ollama, pc, req>>

NextWrap == \E arg \in WrapArgs, kwargs \in WrapKwargs, o \in ImplOutcomes :
                InvokeDecoratedWith(arg, kwargs, o)

SpecWrap == InitReg /\ [][NextWrap]_vars

(***************************************************************************)
(* app/core/tool_registry.py  ToolRegistry.discover_tools on the global    *)
(* registry.  A package is the sequence of modules walk_packages yields, a *)
(* module the sequence of tool classes inspect.getmembers finds in it      *)
(***************************************************************************)
VolumeToolClass == [cls |-> "VolumeTool", name |-> "set_volume", raises |-> FALSE]
AppLauncherToolClass == [cls |-> "AppLauncherTool", name |-> "launch_app", raises |-> FALSE]
\* a tool class whose constructor raises
BrokenToolClass == [cls |-> "BrokenTool", name |-> "capture_screen", raises |-> TRUE]

\* app.services: the package module app.services.system imports the classes
\* of its submodules, so getmembers finds each class in two modules
ServicesPackage == << <<AppLauncherToolClass, VolumeToolClass>>,
                      <<AppLauncherToolClass>>, <<VolumeToolClass>> >>
\* a package whose modules define one class each and import none
FlatPackage == << <<AppLauncherToolClass>>, <<VolumeToolClass>> >>
BrokenPackage == << <<BrokenToolClass>>, <<VolumeToolClass>> >>
Packages == {ServicesPackage, FlatPackage, BrokenPackage, <<>>}

\* the instance tool_class() creates
NewInstance(c) == [name |-> c.name, inst |-> 1]

\* ToolRegistry.register_class(tool_class): any exception is logged and
\* swallowed
register_class(tools, c) ==
    IF c.raises THEN tools ELSE tool_registry_register_tool(tools, NewInstance(c)).tools

\* the concrete BaseTool subclasses of a package, in the order the two loops
\* of discover_tools meet them
RECURSIVE Flatten(_)
Flatten(package) ==
    IF package = <<>> THEN <<>> ELSE Head(package) \o Flatten(Tail(package))

\* the loops of discover_tools over the classes met: register_class(obj);
\* count += 1
RECURSIVE discover_loop(_, _, _)
discover_loop(tools, classes, count) ==
    IF classes = <<>> THEN [tools |-> tools, count |-> count]
    ELSE discover_loop(register_class(tools, Head(classes)), Tail(classes), count + 1)

\* ToolRegistry.discover_tools(package_path)
discover_tools(tools, flag, package) ==
    IF flag
    THEN [tools |-> tools, flag |-> flag, out |-> Ret(PyInt(Len(tools)))]
    ELSE LET r == discover_loop(tools, Flatten(package), 0) IN
         [tools |-> r.tools, flag |-> TRUE, out |-> Ret(PyInt(r.count))]

RECURSIVE RecordAll(_, _)
RecordAll(h, classes) ==
    IF classes = <<>> THEN h
    ELSE RecordAll(IF Head(classes).raises THEN h ELSE Record(h, NewInstance(Head(classes))),
                   Tail(classes))

DiscFrame == UNCHANGED <<th, logger, second, ctx, reg, lreg, ollama, pc, req>>

\* the first discover_tools call, or the first after clear
DiscoverFirst(package) ==
    LET r == discover_tools(treg, discovered, package) IN
    /\ ~discovered
    /\ treg' = r.tools
    /\ discovered' = r.flag
    /\ won' = [won EXCEPT !.global = RecordAll(@, Flatten(package))]
    /\ last' = [NoCall EXCEPT !.op = "discover_tools", !.before = treg, !.obj = package,
                  !.out = r.out]
    /\ DiscFrame

\* a further discover_tools call
DiscoverAgain(package) ==
    LET r == discover_tools(treg, discovered, package) IN
    /\ discovered
    /\ treg' = r.tools
    /\ discovered' = r.flag
    /\ last' = [NoCall EXCEPT !.op = "discover_tools", !.before = treg, !.obj = package,
                  !.out = r.out]
    /\ UNCHANGED won
    /\ DiscFrame

\* register_tool on the global registry between discovery calls
DiscRegisterTool(tool) ==
    /\ GlobalRegisterTool(tool)
    /\ UNCHANGED discovered

\* ToolRegistry.clear
DiscClear ==
    /\ treg' = <<>>
    /\ discovered' = FALSE
    /\ won' = [won EXCEPT !.global = <<>>]
    /\ last' = [NoCall EXCEPT !.op = "tool_registry.clear", !.before = treg]
    /\ DiscFrame

NextDisc ==
    \/ \E package \in Packages : DiscoverFirst(package)
    \/ \E package \in Packages : DiscoverAgain(package)
    \/ \E tool \in RegistryTools : DiscRegisterTool(tool)
    \/ DiscClear

SpecDisc == InitReg /\ [][NextDisc]_vars

(***************************************************************************)
(* Claims                                                                  *)
(***************************************************************************)
IsFailure(o) ==
    /\ ~Raised(o)
    /\ o.val.kind \in {"CommandResult", "Result"}
    /\ o.val.success = FALSE

C2_ProcessCommandReturnsString ==
    last.op = "process_command" => (~Raised(last.out) /\ last.out.val.kind = "str")

\* C3: ToolRegistry.execute_tool never raises for a registered tool: it
\* returns a Result (success or failure).
C3_ExecuteToolNeverRaises ==
    (last.op = "execute_tool" /\ last.name \in RegNames(treg))
    => (~Raised(last.out) /\ last.out.val.kind = "Result")

\* the error kind a result carries: the error_code of a Result; a
\* CommandResult has no such field
ErrorKind(r) == IF r.kind = "Result" THEN r.error_code ELSE None

ExecutedUnregistered ==
    \/ last.op = "execute_tool" /\ last.name \notin RegNames(treg)
    \/ /\ last.op = "route_and_execute"
       /\ ~HasKey(last.decision, "error")
       /\ IsDict(Get(last.decision, "parameters", EmptyDict))
       /\ Lookup(reg, Get(last.decision, "tool_name", None)) = NoTool

RecoversObject(text) ==
    LET o == json_loads(clean_json_response(text)) IN ~Raised(o) /\ IsDict(o.val)

C5_RouteReturnsDecision ==
    (last.op = "route" /\ ~Raised(last.chat) /\ last.chat.val # None)
    => /\ ~Raised(last.out)
       /\ IsDict(last.out.val)
       /\ HasKey(last.out.val, "tool_name")
       /\ HasKey(last.out.val, "parameters")
       /\ IsDict(last.out.val.m["parameters"])
       /\ ~RecoversObject(last.chat.val.s) =>
             last.out.val.m["tool_name"] = PyStr(<<"general_chat">>)

\* a decision object as the classifier is asked to produce it: a tool name or
\* category, and a parameters object
ValidDecision(j) ==
    /\ IsDict(j)
    /\ HasKey(j, "parameters") /\ IsDict(j.m["parameters"])
    /\ \/ HasKey(j, "tool_name") /\ j.m["tool_name"].kind = "str"
       \/ HasKey(j, "category")

\* C6: the cleaning pipelines recover the outermost JSON object: a valid
\* decision object J, bare, inside code fences or followed by prose, parses
\* to exactly J.
C6_PipelineRecoversJ ==
    (last.op \in {"_parse_response", "_parse_json_response"} /\ ValidDecision(last.j))
    => last.out = Ret(last.j)

C8_RouteTerminates == (pc = "waiting") ~> (pc = "idle")

WrapperMade ==
    /\ last.op = "execute"
    /\ LET o == Tool_run(last.tool, last.params, last.env)
       IN Raised(o) \/ o.val.kind # "CommandResult"

RouterMade ==
    /\ last.op = "route_and_execute"
    /\ \/ HasKey(last.decision, "error")
       \/ Lookup(reg, Get(last.decision, "tool_name", None)) = NoTool

ReturnsCommandResult ==
    /\ last.op \in {"execute", "route_and_execute"}
    /\ ~Raised(last.out)
    /\ last.out.val.kind = "CommandResult"

C10_DuplicateRejected ==
    (last.op = "register_tool" /\ last.name \in RegNames(last.before))
    => /\ last.out.exc = "ValueError"
       /\ Len(reg) = Len(last.before)
       /\ get_tool(reg, last.name) = get_tool(last.before, last.name)
       /\ reg = last.before

C10_Witness ==
    /\ last.op = "register_tool"
    /\ last.name \in RegNames(last.before)
    /\ get_tool(last.before, last.name) # last.tool
    /\ Raised(last.out)

\* the way a registry treats the registration of tool t under a name it holds
Policy(r, t) ==
    IF Raised(r.out) THEN "reject"
    ELSE IF t \in Range(r.tools) THEN "overwrite" ELSE "ignore"

\* the policies the three registry classes apply to the duplicates that are
\* possible in this state
DuplicatePolicies ==
    {Policy(register_tool(reg, t), t) : t \in {u \in Tools : u.name \in RegNames(reg)}}
    \cup {Policy(tool_registry_register_tool(treg, t), t) :
             t \in {u \in Tools : u.name \in RegNames(treg)}}
    \cup {Policy(ToolRegistry_register(lreg, t), t) :
             t \in {u \in LegacyTools : u.name \in RegNames(lreg)}}

RegisterOps == {"register_tool", "tool_registry.register_tool", "ToolRegistry.register"}

\* C11: duplicate registration follows one single policy across the program:
\* whenever a registration under an existing name was rejected (or
\* overwrote the entry) in one registry class, every registry class rejects
\* (or overwrites) its duplicates too.
C11_SingleDuplicatePolicy ==
    (last.op \in RegisterOps /\ last.name \in RegNames(last.before))
    => DuplicatePolicies \subseteq {IF Raised(last.out) THEN "reject" ELSE "overwrite"}

\* the instance a history gives to a name
Winner(h, name) ==
    IF \E i \in 1..Len(h) : h[i].name = name
    THEN h[CHOOSE i \in 1..Len(h) : h[i].name = name]
    ELSE NoTool

\* C12: after any sequence of register_tool calls, get_tool(n) returns
\* exactly the instance whose registration under n succeeded (the last one
\* that succeeded), and None for a name that was never registered, in
\* app.core.registry and in app.core.tool_registry.
C12_GetReturnsRegistered ==
    /\ last.op = "get_tool" => last.tool = Winner(won.core, last.name)
    /\ last.op = "tool_registry.get_tool" => last.tool = Winner(won.global, last.name)
    /\ \A n \in RegistryNames :
          /\ get_tool(reg, n) = Winner(won.core, n)
          /\ tool_registry_get_tool(treg, n) = Winner(won.global, n)

C12_Witness ==
    /\ last.op = "tool_registry.get_tool"
    /\ last.tool.inst = 2
    /\ Len(treg) = 2
    /\ get_tool(reg, last.name).inst = 1
    /\ get_tool(reg, "ghost") = NoTool

\* the tool names a listing shows, in the order in which it shows them
ListedNames(v) ==
    IF v.kind = "list" THEN [i \in 1..Len(v.items) |-> v.items[i].s[1]]
    ELSE SelectSeq(v.s, LAMBDA t : t \in ToolNames \cup LegacyToolNames)

NamesOf(h) == [i \in 1..Len(h) |-> h[i].name]

\* C13: listing a registry returns the tools in insertion order: list_tools
\* and get_tool_names yield the entries in the order in which their names
\* were registered.
C13_ListInInsertionOrder ==
    (last.op \in {"list_tools", "get_tool_names", "tool_registry.list_tools"})
    => ListedNames(last.out.val) =
          NamesOf(IF last.op = "tool_registry.list_tools" THEN won.global ELSE won.core)

\* C14 (as stated): process_command keeps no state between requests: no step
\* of a request changes the registry's tool set or a field of the dispatcher
\* or of the router.
C14_NoStateKept == [][reg' = reg /\ ollama' = ollama]_vars

\* C14 (amended): no step of a request changes the registry's tool set or a
\* field of the dispatcher; the only router field that changes is the lazily
\* imported ollama module, which goes from not loaded to loaded when a request
\* first reaches the classifier call and is never unloaded or replaced.
C14_OnlyImportIsCached ==
    [][/\ reg' = reg
       /\ ollama' # ollama => (~ollama /\ ollama' /\ pc = "idle" /\ pc' = "waiting")]_vars

C14_Witness ==
    /\ last.op = "process_command"
    /\ last.env = "raises"
    /\ IsFailure(BaseTool_execute(Lookup(reg, last.decision.m["tool_name"]),
                                  last.decision.m["parameters"], last.env))
    /\ ~Raised(last.out)
    /\ ollama
    /\ reg = won.core

\* C15: each process_command request follows RECEIVED -> ROUTED ->
\* {EXECUTING | CHATTING} -> COMPLETED: after routing it enters exactly one of
\* EXECUTING (one tool run) or CHATTING (a reply with no tool run: the chat
\* handler or a reply the dispatcher builds itself), and it reaches COMPLETED.
C15_RequestStateMachine ==
    last.op = "process_command"
    => \E phase \in {"EXECUTING", "CHATTING", "REPLY"} :
          last.trace = <<"RECEIVED", "ROUTED", phase, "COMPLETED">>

\* the error texts route puts into a decision
RoutingErrorTexts ==
    {route_catch(<<>>, Raise("ConnectionError", m)).val.m["error"].s : m \in ConnectionErrors}
    \cup {route_before_chat(<<>>, Ret(None)).m["error"].s}
    \cup {route_before_chat(<<"hi">>, Raise("ImportError", <<>>)).m["error"].s}

\* C16: when routing fails, the reply of process_command is a generic
\* response that does not depend on the text of the routing error: the same
\* request with any other routing error gets the same reply.
C16_GenericRoutingFailureReply ==
    (last.op = "process_command" /\ HasKey(last.decision, "error"))
    => /\ ~Raised(last.out)
       /\ \A e \in RoutingErrorTexts :
             process_decision(reg, SetItem(last.decision, "error", PyStr(e)), "ok", "ok").out
               = last.out

\* the decision object the classifier's text holds
ClassifierDecision(text) == json_loads(clean_json_response(text))

NamesATool(text) ==
    LET o == ClassifierDecision(text) IN
    /\ ~Raised(o)
    /\ IsDict(o.val)
    /\ HasKey(o.val, "tool_name")
    /\ o.val.m["tool_name"].kind = "str"
    /\ o.val.m["tool_name"] # PyStr(<<"general_chat">>)

\* C17: when the classifier returns a tool_name other than general_chat that
\* is not in the registry, route returns a decision with that same tool_name
\* and the same parameters plus a warning; when the tool_name is registered
\* no warning is attached.
C17_UnknownToolWarning ==
    (last.op = "route" /\ ~Raised(last.chat) /\ last.chat.val # None
        /\ NamesATool(last.chat.val.s))
    => LET j == ClassifierDecision(last.chat.val.s).val
           d == last.out.val
       IN /\ ~Raised(last.out)
          /\ IsDict(d)
          /\ d.m["tool_name"] = j.m["tool_name"]
          /\ d.m["parameters"] = Get(j, "parameters", EmptyDict)
          /\ ~HasKey(d, "error")
          /\ HasKey(d, "warning") <=> Lookup(reg, j.m["tool_name"]) = NoTool
          /\ HasKey(d, "warning") =>
                (d.m["warning"].kind = "str" /\ j.m["tool_name"].s[1] \in Range(d.m["warning"].s))

C17_Witness ==
    /\ last.op = "route"
    /\ reg # <<>>
    /\ ~Raised(last.out)
    /\ IsDict(last.out.val)
    /\ Get(last.out.val, "tool_name", None) = PyStr(<<"ghost">>)
    /\ Get(last.out.val, "parameters", None) = PyDict([k \in {"level"} |-> PyInt(50)])
    /\ HasKey(last.out.val, "warning")

\* the operations that call a tool's implementation
InvocationOps == {"BaseTool.execute", "BaseTool.run", "safe_tool_execution",
                  "SemanticRouter.execute"}
ImplRaised == last.op \in InvocationOps /\ Raised(last.impl)

\* C18: every invocation of a tool's implementation is inside the
\* exception-catching wrapper: when the implementation raises, the caller
\* of the dispatcher, registry or router operation gets a value, never
\* the exception
C18_EveryInvocationWrapped ==
    ImplRaised => ~Raised(last.out)

\* the invocations made through one of the safety wrappers
WrapperOps == {"BaseTool.execute", "BaseTool.run", "safe_tool_execution"}
\* the words that make a key sensitive
ClaimWords == {"password", "token", "secret", "key", "credential"}

\* C19: when an invocation through a safety wrapper fails with an
\* exception, the record written to the error sink holds the invocation's
\* parameter map in which the values under keys containing password,
\* token, secret, key or credential, at any depth of maps and lists, are
\* the redaction marker and every other value is unchanged
C19_ErrorRecordRedacted ==
    (last.op \in WrapperOps /\ Raised(last.impl))
        => last.log.params = redact_sensitive_data(last.params, ClaimWords)

\* the characters of the exception's message inside an error text
Carried(text) == Len(SelectSeq(text, LAMBDA c : c = "x"))

\* C20: the error message of a failure result produced by a safety wrapper
\* carries at most 150 characters of the exception's message, for every
\* exception type and on both wrappers
C20_ErrorMessageTruncated ==
    (last.op \in WrapperOps /\ Raised(last.impl))
        => Carried(last.out.val.error.s) <= ErrorLimit

\* what a finished call must have returned, from its own tool and
\* parameters and from the registry
OwnResult(r) ==
    CASE r.op = "execute" /\ r.name = "set_volume" /\ r.env = "ok" ->
            r.out = Ret(CommandResult(TRUE, PyDict([k \in {"volume"} |-> r.kwargs.m["level"]]), None))
      [] r.op = "execute" /\ r.name = "set_volume" /\ r.env = "raises" ->
            r.out = Ret(CommandResult(FALSE, None, PyStr(<<"COM error">>)))
      [] r.op = "execute" /\ r.name = "launch_app" /\ r.env = "ok" ->
            /\ ~Raised(r.out)
            /\ r.out.val.success
            /\ r.out.val.data = PyDict([k \in {"app"} |-> PyStr(<<"launch_app">>)])
      [] r.op = "execute" /\ r.name = "launch_app" /\ r.env = "raises" ->
            r.out = Ret(CommandResult(FALSE, None, PyStr(<<"boom">>)))
      [] r.op = "get_tool" ->
            IF r.name \in RegNames(reg) THEN r.tool.name = r.name /\ r.tool \in Range(reg)
            ELSE r.tool = NoTool
      [] r.op = "list_tools" ->
            r.out = Ret(list_tools(reg))
      [] OTHER -> FALSE

\* C21: of two calls issued concurrently on one registry, each one that
\* has finished returned the result of its own tool and parameters, a
\* get_tool or list_tools answered from the registry, and a call that has
\* not finished can take its next step whatever the other thread does
C21_ConcurrentExecutions ==
    \A t \in Threads :
        /\ th[t].pc = "done" => OwnResult(th[t])
        /\ th[t].pc \notin {"idle", "done"} => ENABLED ThreadStep(t)

\* two executions with different parameters that ran at the same time,
\* both finished
C21_Witness ==
    /\ \A t \in Threads : th[t].pc = "done" /\ th[t].op = "execute" /\ th[t].env = "ok"
    /\ th[1].name = "set_volume" /\ th[2].name = "set_volume"
    /\ th[1].kwargs # th[2].kwargs
    /\ \E t \in Threads : th[t].seen = <<"overlap">>

\* what the read r returns when it runs alone on the tool set S
ReadAlone(r, S) ==
    CASE r.op = "get_tool" /\ r.env = "core"       -> Ret(get_tool(S, r.name))
      [] r.op = "list_tools" /\ r.env = "core"     -> Ret(list_tools(S))
      [] r.op = "get_tool" /\ r.env = "global"     -> Ret(tool_registry_get_tool(S, r.name))
      [] r.op = "list_tools" /\ r.env = "global"   -> Ret(tool_registry_list_tools(S))
      [] r.op = "execute_tool" /\ r.env = "global" -> execute_tool(S, r.name, EmptyDict)
ReadOps == {"get_tool", "list_tools", "execute_tool"}

\* C22: a get_tool, list_tools or execute_tool call that ran while the
\* registry was being mutated returns what it returns when run alone on
\* one of the tool sets the registry held during the call (the set before
\* a mutation or the set after it): the mutation makes no reader fail and
\* no reader sees a mixture
C22_ReadersSeeBeforeOrAfter ==
    \A t \in Threads :
        (th[t].pc = "done" /\ th[t].op \in ReadOps)
            => \E S \in th[t].snap : th[t].out = ReadAlone(th[t], S)

\* C23: two separately constructed registries of the same class are
\* isolated: a registration or a clear made on one of them leaves the
\* tools that get and list return on the other one unchanged
C23_RegistriesIsolated ==
    [][\A c \in RegistryClasses, i \in Instances :
          (last'.op \in {"register", "clear"} /\ last'.obj = <<c, i>>)
              => ToolsOf(c, 3 - i)' = ToolsOf(c, 3 - i)]_vars

\* the classifier text is {"tool_name": "set_volume", "parameters": {"level": L}}
SetVolumeDecision(L) ==
    PyDict([k \in {"tool_name", "parameters"} |->
               IF k = "tool_name" THEN PyStr(<<"set_volume">>)
               ELSE PyDict([j \in {"level"} |-> PyInt(L)])])
ClassifierSaidLevel(L) ==
    /\ ~Raised(last.chat) /\ last.chat.val # None
    /\ ClassifierDecision(last.chat.val.s) = Ret(SetVolumeDecision(L))

\* what the three operations return for a set_volume decision of level L
VolumeAnswers(L) ==
    /\ last.op = "route" => last.out = Ret(SetVolumeDecision(L))
    /\ last.op = "route_and_execute"
          => last.out = Ret(CommandResult(TRUE, PyDict([k \in {"volume"} |-> PyInt(L)]), None))
    /\ last.op = "process_command"
          => last.out = Ret(PyStr(<<"Volume set to ", ToString(L), "%">>))

C25_HistoryAppendOnly ==
    [][/\ \A i \in 1..Len(ctx.actions) :
             i <= Len(ctx.actions') /\ ctx.actions'[i] = ctx.actions[i]
       /\ last'.op = "record_action"
             => ctx.actions' = Append(ctx.actions, ActionRecord(ctx.recorded + 1))
       /\ (last'.op = "get_action_history" /\ last'.params = None)
             => last'.out = Ret(PyList([i \in 1..ctx.recorded |-> ActionRecord(i)]))
       /\ (last'.op = "get_last_action" /\ ctx.recorded > 0)
             => last'.out = Ret(ActionRecord(ctx.recorded))]_vars

\* the last m of the n messages added so far
LastAdded(n, m) == [i \in 1..m |-> Message(n - m + i)]

\* C26: after n messages were added, get_messages() returns the last
\* min(n, max_context_messages) of them in the order they were added, and
\* get_messages(limit=k) the last min(k, that count) of those
C26_MessageWindow ==
    last.op = "get_messages"
        => LET count == Min(ctx.added, ctx.max_context_messages) IN
           last.out = Ret(PyList(LastAdded(ctx.added,
                                           IF last.params = None THEN count
                                           ELSE Min(last.params.n, count))))

\* the keyword groups in the order the statement gives them
ClaimGroups == <<[category |-> "SYSTEM_CONTROL", keywords |-> SystemKeywords],
                 [category |-> "APP_CONTROL", keywords |-> AppKeywords],
                 [category |-> "OFFICE_WORK", keywords |-> OfficeKeywords],
                 [category |-> "BROWSER", keywords |-> BrowserKeywords]>>
GroupMatches(g, query) ==
    \E i \in DOMAIN query : KeywordsOf(LowerWord(query[i])) \cap ClaimGroups[g].keywords # {}
FirstGroup(query) ==
    LET hits == {g \in DOMAIN ClaimGroups : GroupMatches(g, query)} IN
    IF hits = {} THEN "GENERAL_CHAT"
    ELSE ClaimGroups[CHOOSE g \in hits : \A h \in hits : g <= h].category
ClassifierUnusable ==
    /\ last.op = "route_intent"
    /\ \/ Raised(last.chat)
       \/ parse_json_response(Strip(last.chat.val.s)) = None

CaptureSucceeded ==
    /\ last.op = "process_command"
    /\ ~HasKey(last.decision, "error")
    /\ Get(last.decision, "tool_name", None) = PyStr(<<"visual_query">>)
    /\ IsDict(Get(last.decision, "parameters", EmptyDict))
    /\ get_tool(reg, "capture_screen") # NoTool
    /\ BaseTool_execute(get_tool(reg, "capture_screen"), EmptyDict, last.env).val.success

C29_CallerArgumentsKept ==
    (/\ last.op = "safe_tool_execution(**kwargs)"
     /\ Raised(last.impl)
     /\ last.params.kind = "dict")
    => last.after = last.params

\* C30: discover_tools is idempotent and returns the number of tools
\* discovered: the number a call returns equals the number of tools in the
\* registry after it, a further call (without clear) leaves the registry
\* unchanged, and a call that follows another returns the same number.
C30_DiscoverIdempotent ==
    [][last'.op = "discover_tools" =>
          /\ last'.out = Ret(PyInt(Len(treg')))
          /\ discovered => treg' = treg
          /\ (discovered /\ last.op = "discover_tools") => last'.out = last.out]_vars

====
